---- MODULE Spec2Model ----
(***************************************************************************)
(* A model of preflight-ai's persistent state: the project memory store   *)
(* (memory/memory_manager.py), the codebase index (memory/file_indexer.py) *)
(* and the post-change updater (memory/memory_updater.py); and of the      *)
(* context selection of a change request: the classifier retry and the     *)
(* context package (memory/context_finder.py, ai/idea_parser.py).          *)
(*                                                                         *)
(* A file on disk is a record with a field kind:                           *)
(*   "absent"   no such file                                               *)
(*   "json"     a complete JSON document; value is what json.loads gives   *)
(*   "partial"  the first n write chunks of the JSON document of value     *)
(*              (valid UTF-8, not valid JSON)                              *)
(*   "text"     other valid UTF-8 text that is not JSON                    *)
(*   "bytes"    bytes that are not valid UTF-8                             *)
(* A Python value held in MemoryManager._data is a record with a field     *)
(* type ("dict" or "list") and its items.                                  *)
(***************************************************************************)
EXTENDS Integers, Sequences, FiniteSets, TLC

VARIABLES
    memFile,    \* .preflight/memory.json
    bakFile,    \* .preflight/memory.json.bak
    data,       \* MemoryManager._data of the instance under use
    fresh,      \* MemoryManager._data of a second instance, a local of its caller
    exc,        \* the exception the last call raised, "none" if it returned
    fs,         \* the project's files outside .preflight/: path -> content
    idxFile,    \* .preflight/file-index.json
    wpc,        \* where a save() or _write_index() under way stands: "idle" or "tmp"
    wTarget,    \* the file it is writing: "memory" or "index"
    wDoc,       \* the document it is writing
    tmpFile,    \* its temporary file in .preflight/
    seen,       \* what another process last read from one of the two files
    gotIndex,   \* what FileIndexer.load() last returned
    pkg,        \* the ContextPackage build_context() last returned
    apc,        \* where analyze_change() or parse_idea() stands
    requests,   \* the call_ai() calls it has made
    sends,      \* the API requests the provider has sent for the current call_ai()
    intent,     \* what it returned
    cost,       \* the estimate_cost() calls last compared: arguments and returned costs
    claudeMd,   \* .claude/CLAUDE.md
    geminiMd,   \* GEMINI.md
    pc,         \* where each of two processes updating the memory stands, and what it saved
    rpc,        \* where run_change() stands
    waiting     \* the provider is waiting after a rate-limit error

memVars == <<memFile, bakFile, data, fresh, exc>>

idxVars == <<fs, idxFile>>

wrVars == <<wpc, wTarget, wDoc, tmpFile, seen>>

ctxVars == <<gotIndex, pkg, apc, requests, sends, intent>>

runVars == <<cost, claudeMd, geminiMd, pc, rpc, waiting>>

vars == <<memFile, bakFile, data, fresh, exc, fs, idxFile, wpc, wTarget, wDoc, tmpFile, seen, gotIndex, pkg, apc, requests, sends, intent, cost, claudeMd, geminiMd, pc, rpc, waiting>>

----------------------------------------------------------------------------
(* Bounds of the model *)

MaxDecisions == 2
MaxChanges == 2

\* the number of flushes in which json.dump writes a document
WriteChunks == 2

----------------------------------------------------------------------------
(* Input domains *)

ModuleNames == {"auth", "api"}

\* set_module(name, status=..., files=...)
ModuleInputs ==
    {[name |-> "auth", status |-> "complete", files |-> <<"auth.py">>],
     [name |-> "auth", status |-> "not_started", files |-> << >>]}

\* add_decision(decision, reason, affects)
DecisionInputs ==
    {[decision |-> "Use bcrypt", reason |-> "Industry standard", affects |-> <<"auth">>],
     [decision |-> "Use JWT", reason |-> "Stateless", affects |-> <<"api">>]}

\* add_change(description, files_changed, tokens_used, tokens_saved)
ChangeInputs ==
    {[description |-> "Added login", files_changed |-> <<<<"auth", "login.py">>>>,
      tokens_used |-> 300, tokens_saved |-> 5000],
     [description |-> "Fixed bug", files_changed |-> << >>,
      tokens_used |-> 0, tokens_saved |-> 0]}

\* datetime.now(timezone.utc).isoformat(): an opaque stamp
NowStamp == "now"

----------------------------------------------------------------------------
(* Python and JSON values *)

NONE == "None"

EmptyDict == [k \in {} |-> NONE]

PyDict(items) == [type |-> "dict", items |-> items]

PyList == [type |-> "list", items |-> << >>]

IsDict(v) == v.type = "dict"

\* d[k] = val on a dict
SetItem(items, k, val) ==
    [x \in (DOMAIN items) \cup {k} |-> IF x = k THEN val ELSE items[x]]

\* d.get(k, default)
GetItem(items, k, default) == IF k \in DOMAIN items THEN items[k] ELSE default

Absent == [kind |-> "absent"]

GarbageText == [kind |-> "text"]

GarbageBytes == [kind |-> "bytes"]

\* json.dump(value, f): the complete document
JsonDump(value) == [kind |-> "json", value |-> value]

\* Path.read_text(encoding="utf-8") followed by json.loads: the exception raised
JsonLoadsExc(file) ==
    CASE file.kind = "bytes" -> "UnicodeDecodeError"
      [] file.kind \in {"text", "partial"} -> "JSONDecodeError"
      [] OTHER -> "none"

\* json.loads of a complete document
JsonLoads(file) == file.value


----------------------------------------------------------------------------
(* MemoryManager: memory/memory_manager.py *)

\* MemoryManager.__init__: self._data = {}
NewManagerData == PyDict(EmptyDict)

default_memory(t) ==
    PyDict([project_name |-> "proj",
            created_at |-> t,
            last_updated |-> t,
            stack |-> [language |-> "", frontend |-> NONE, backend |-> NONE,
                       database |-> NONE, auth |-> NONE, hosting |-> NONE],
            ai_target |-> "both",
            modules |-> EmptyDict,
            decisions |-> << >>,
            change_history |-> << >>])

\* _backup_corrupt: rename memory.json to memory.json.bak (replacing an old one)
backup_corrupt(file, bak) ==
    IF file.kind # "absent"
    THEN [memFile |-> Absent, bakFile |-> file]
    ELSE [memFile |-> file, bakFile |-> bak]

\* load() that persists the default record it builds
load_creates_file(file, bak, cur, t) ==
    IF file.kind = "absent"
    THEN [data |-> default_memory(t), memFile |-> JsonDump(default_memory(t)),
          bakFile |-> bak, exc |-> "none"]
    ELSE [data |-> JsonLoads(file), memFile |-> file, bakFile |-> bak, exc |-> "none"]

\* load() that rebuilds the default record whatever the file holds
load_rebuilds(file, bak, cur, t) ==
    [data |-> default_memory(t), memFile |-> file, bakFile |-> bak, exc |-> "none"]

\* load(): the new _data, the files it leaves and the exception it raises
load(file, bak, cur, t) ==
    IF file.kind = "absent"
    THEN [data |-> default_memory(t), memFile |-> file, bakFile |-> bak, exc |-> "none"]
    ELSE IF JsonLoadsExc(file) = "none"
    THEN [data |-> JsonLoads(file), memFile |-> file, bakFile |-> bak, exc |-> "none"]
    ELSE IF JsonLoadsExc(file) \in {"JSONDecodeError", "OSError"}
    THEN [data |-> default_memory(t),
          memFile |-> backup_corrupt(file, bak).memFile,
          bakFile |-> backup_corrupt(file, bak).bakFile,
          exc |-> "none"]
    ELSE [data |-> cur, memFile |-> file, bakFile |-> bak, exc |-> JsonLoadsExc(file)]

\* save(): stamp last_updated, then write the document over memory.json
save(cur, file, t) ==
    IF ~IsDict(cur)
    THEN [data |-> cur, memFile |-> file, exc |-> "TypeError"]
    ELSE [data |-> PyDict(SetItem(cur.items, "last_updated", t)),
          memFile |-> JsonDump(PyDict(SetItem(cur.items, "last_updated", t))),
          exc |-> "none"]

get_module(cur, name) ==
    IF ~IsDict(cur)
    THEN [value |-> NONE, exc |-> "AttributeError"]
    ELSE [value |-> GetItem(GetItem(cur.items, "modules", EmptyDict), name, NONE),
          exc |-> "none"]

Range(seq) == {seq[i] : i \in DOMAIN seq}

\* get_decisions_for_modules() that returns every decision
get_decisions_unfiltered(cur, module_names) ==
    IF ~IsDict(cur)
    THEN [value |-> << >>, exc |-> "AttributeError"]
    ELSE [value |-> GetItem(cur.items, "decisions", << >>), exc |-> "none"]

get_decisions_for_modules(cur, module_names) ==
    IF ~IsDict(cur)
    THEN [value |-> << >>, exc |-> "AttributeError"]
    ELSE LET Hit(d) == Range(module_names) \cap Range(d.affects) # {}
         IN [value |-> SelectSeq(GetItem(cur.items, "decisions", << >>), Hit),
             exc |-> "none"]

set_module(cur, name, status, files, purpose, dependencies) ==
    IF ~IsDict(cur)
    THEN [data |-> cur, exc |-> "TypeError"]
    ELSE LET base == IF "modules" \in DOMAIN cur.items
                     THEN cur.items
                     ELSE SetItem(cur.items, "modules", EmptyDict)
             entry == [status |-> status, files |-> files, purpose |-> purpose,
                       dependencies |-> dependencies]
         IN [data |-> PyDict(SetItem(base, "modules",
                                     SetItem(base["modules"], name, entry))),
             exc |-> "none"]

add_decision(cur, decision, reason, affects, t) ==
    IF ~IsDict(cur)
    THEN [data |-> cur, exc |-> "TypeError"]
    ELSE LET base == IF "decisions" \in DOMAIN cur.items
                     THEN cur.items
                     ELSE SetItem(cur.items, "decisions", << >>)
             entry == [decision |-> decision, reason |-> reason, date |-> t,
                       affects |-> affects]
         IN [data |-> PyDict(SetItem(base, "decisions",
                                     Append(base["decisions"], entry))),
             exc |-> "none"]

\* add_change() that records a change only in an empty history
add_change_once(cur, description, files_changed, tokens_used, tokens_saved, t) ==
    LET old == IF "change_history" \in DOMAIN cur.items
               THEN cur.items["change_history"]
               ELSE << >>
    IN [data |-> PyDict(SetItem(cur.items, "change_history",
                     IF old # << >>
                     THEN old
                     ELSE <<[date |-> t, description |-> description,
                             files_changed |-> files_changed,
                             tokens_used |-> tokens_used,
                             tokens_saved |-> tokens_saved]>>)),
        exc |-> "none"]

\* add_change() that starts the history anew
add_change_resets(cur, description, files_changed, tokens_used, tokens_saved, t) ==
    [data |-> PyDict(SetItem(cur.items, "change_history",
                  <<[date |-> t, description |-> description,
                     files_changed |-> files_changed,
                     tokens_used |-> tokens_used, tokens_saved |-> tokens_saved]>>)),
     exc |-> "none"]

add_change(cur, description, files_changed, tokens_used, tokens_saved, t) ==
    IF ~IsDict(cur)
    THEN [data |-> cur, exc |-> "TypeError"]
    ELSE LET base == IF "change_history" \in DOMAIN cur.items
                     THEN cur.items
                     ELSE SetItem(cur.items, "change_history", << >>)
             entry == [date |-> t, description |-> description,
                       files_changed |-> files_changed,
                       tokens_used |-> tokens_used, tokens_saved |-> tokens_saved]
         IN [data |-> PyDict(SetItem(base, "change_history",
                                     Append(base["change_history"], entry))),
             exc |-> "none"]

\* the persisted fields of a record, absent keys read as empty
Modules(v) == IF IsDict(v) THEN GetItem(v.items, "modules", EmptyDict) ELSE EmptyDict

Decisions(v) == IF IsDict(v) THEN GetItem(v.items, "decisions", << >>) ELSE << >>

ChangeHistory(v) == IF IsDict(v) THEN GetItem(v.items, "change_history", << >>) ELSE << >>

----------------------------------------------------------------------------
(* The project tree.  A path is the sequence of its segments. *)

P_main == <<"main.py">>

P_login == <<"src", "auth", "login.py">>

P_dep == <<"web", "node_modules", "x.js">>

P_logo == <<"docs", "logo.png">>

ProjectPaths == {P_main, P_login, P_dep, P_logo}

P_users == <<"src", "api", "users.py">>

P_app == <<"src", "app.py">>

\* a layout with files at the root, directly in src/, below src/ and elsewhere
P_guide == <<"docs", "guide.md">>

LayoutPaths == {P_main, P_app, P_login, P_users, P_guide}

IndexPath == <<".preflight", "file-index.json">>

MemoryPath == <<".preflight", "memory.json">>

BakPath == <<".preflight", "memory.json.bak">>

\* the order in which os.walk lists the tree
WalkOrder == <<P_main, P_guide, P_app, P_login, P_users, P_dep, P_logo, IndexPath, MemoryPath, BakPath>>

\* Path.suffix of the file names of the tree
Suffix(name) ==
    CASE name \in {"main.py", "login.py", "users.py", "app.py"} -> ".py"
      [] name = "guide.md" -> ".md"
      [] name = "x.js" -> ".js"
      [] name = "logo.png" -> ".png"
      [] name \in {"file-index.json", "memory.json"} -> ".json"
      [] name = "memory.json.bak" -> ".bak"
      [] OTHER -> ""

\* file contents: the lines of a source file, with what the import and export
\* patterns of its family find in it
SrcSmall ==
    [kind |-> "src", body |-> <<"code">>,
     imports |-> << >>, exports |-> <<"login_user">>]

SrcBig ==
    [kind |-> "src", body |-> <<"code", "comment", "code">>,
     imports |-> <<"auth.login">>, exports |-> << >>]

\* a file that exists and whose read raises OSError
Unreadable == [kind |-> "unreadable"]

Contents == {SrcSmall, SrcBig, Unreadable}

\* a project with two indexable files and a dependency under node_modules
ProjectTree ==
    [p \in ProjectPaths |->
        CASE p = P_main -> SrcSmall
          [] p = P_login -> SrcBig
          [] p = P_dep -> SrcSmall
          [] OTHER -> Absent]

\* the file at a path under the project root
FileAt(tree, index_file, memory_file, bak_file, path) ==
    CASE path = IndexPath -> index_file
      [] path = MemoryPath -> memory_file
      [] path = BakPath -> bak_file
      [] path \in DOMAIN tree -> tree[path]
      [] OTHER -> Absent

Exists(file) == file.kind # "absent"

----------------------------------------------------------------------------
(* core/constants.py, core/token_counter.py *)

\* the ignore set without the tool's own state directory
IGNORED_DIRS_without_state_dir ==
    {".git", ".svn", "node_modules", "venv", ".venv", "env", "__pycache__",
     ".claude", ".gemini", "dist", "build", ".eggs", ".tox",
     ".mypy_cache", ".pytest_cache"}

IGNORED_DIRS ==
    {".git", ".svn", "node_modules", "venv", ".venv", "env", "__pycache__",
     ".preflight", ".claude", ".gemini", "dist", "build", ".eggs", ".tox",
     ".mypy_cache", ".pytest_cache"}

INDEXED_EXTENSIONS ==
    {".py", ".js", ".ts", ".jsx", ".tsx", ".go", ".rs", ".java", ".rb", ".php",
     ".swift", ".kt", ".c", ".cpp", ".h", ".css", ".scss", ".html", ".vue",
     ".svelte", ".sql", ".graphql", ".proto", ".yaml", ".yml", ".toml", ".json",
     ".md", ".txt", ".env", ".sh", ".bash", ".zsh", ".dockerfile"}

CONTEXT_TOKEN_THRESHOLD == 2000

\* the tokens of one line of a source file: a line of code, a comment, a
\* docstring hidden behind a JS comment marker ("masked"), or a block of code half
\* the context threshold long
LineTokens(line) ==
    IF line = "block" THEN CONTEXT_TOKEN_THRESHOLD \div 2 ELSE 1

RECURSIVE SumLines(_)
SumLines(body) ==
    IF body = << >> THEN 0 ELSE LineTokens(Head(body)) + SumLines(Tail(body))

\* len(encoding.encode(text)): the tokens of the lines of a source file
count_tokens(content) ==
    CASE content.kind = "src" -> SumLines(content.body)
      [] content.kind = "json" -> 2
      [] content.kind = "partial" -> 1
      [] content.kind = "text" -> 1
      [] OTHER -> 0

----------------------------------------------------------------------------
(* FileIndexer: memory/file_indexer.py *)

EmptyIndex ==
    [indexed_at |-> "", total_files |-> 0, total_tokens_if_full_read |-> 0,
     files |-> EmptyDict, modules |-> EmptyDict]

\* FileIndexer.load(): the persisted index, or the empty one
indexer_load(index_file) ==
    IF index_file.kind = "json" THEN index_file.value ELSE EmptyIndex

\* _write_index(): the document replaces file-index.json
write_index(index) == JsonDump(index)

IsPrefix(s, t) == Len(s) <= Len(t) /\ SubSeq(t, 1, Len(s)) = s

\* the names os.walk lists in the directory dirpath
Filenames(present, dirpath) ==
    {p \in present : Len(p) = Len(dirpath) + 1 /\ IsPrefix(dirpath, p)}

Dirnames(present, dirpath) ==
    {p[Len(dirpath) + 1] : p \in {q \in present : Len(q) > Len(dirpath) + 1
                                                  /\ IsPrefix(dirpath, q)}}

\* os.walk from dirpath, with the ignored directory names pruned
RECURSIVE WalkFrom(_, _)
WalkFrom(present, dirpath) ==
    {p \in Filenames(present, dirpath) : Suffix(p[Len(p)]) \in INDEXED_EXTENSIONS}
    \cup UNION {WalkFrom(present, Append(dirpath, d)) :
                   d \in {x \in Dirnames(present, dirpath) : x \notin IGNORED_DIRS}}

\* _walk_files(): the indexable files, in the order of the walk
walk_files(tree, index_file, memory_file, bak_file) ==
    LET present == {p \in Range(WalkOrder) :
                       Exists(FileAt(tree, index_file, memory_file, bak_file, p))}
        Found(p) == p \in WalkFrom(present, << >>)
    IN SelectSeq(WalkOrder, Found)

detect_imports(content, suffix) ==
    IF suffix \in {".py", ".js", ".ts", ".jsx", ".tsx"} THEN content.imports ELSE << >>

detect_exports(content, suffix) ==
    IF suffix \in {".py", ".js", ".ts", ".jsx", ".tsx"} THEN content.exports ELSE << >>

\* the first segment, whatever it is
detect_module_first_segment(parts) == IF Len(parts) < 2 THEN "root" ELSE parts[1]

\* _detect_module(rel_path)
detect_module(parts) ==
    IF Len(parts) < 2 THEN "root"
    ELSE IF parts[1] = "src" /\ Len(parts) >= 3 THEN parts[2]
    ELSE parts[1]

\* one pass of the loop of index() over the walked file rel
IndexOne(acc, rel, content) ==
    IF content.kind = "unreadable"
    THEN acc
    ELSE LET tokens == count_tokens(content)
             suffix == Suffix(rel[Len(rel)])
             module == detect_module(rel)
             record == [purpose |-> "", module |-> module,
                        imports |-> detect_imports(content, suffix),
                        exports |-> detect_exports(content, suffix),
                        token_count |-> tokens,
                        last_modified |-> "mtime", summary |-> ""]
         IN [files |-> SetItem(acc.files, rel, record),
             modules |-> SetItem(acc.modules, module,
                                 Append(GetItem(acc.modules, module, << >>), rel)),
             total_tokens |-> acc.total_tokens + tokens]

RECURSIVE IndexLoop(_, _, _, _, _, _, _)
IndexLoop(all_files, i, acc, tree, index_file, memory_file, bak_file) ==
    IF i > Len(all_files)
    THEN acc
    ELSE IndexLoop(all_files, i + 1,
                   IndexOne(acc, all_files[i],
                            FileAt(tree, index_file, memory_file, bak_file,
                                   all_files[i])),
                   tree, index_file, memory_file, bak_file)

\* index(): the index it builds
index(tree, index_file, memory_file, bak_file) ==
    LET acc == IndexLoop(walk_files(tree, index_file, memory_file, bak_file), 1,
                         [files |-> EmptyDict, modules |-> EmptyDict, total_tokens |-> 0],
                         tree, index_file, memory_file, bak_file)
    IN [indexed_at |-> NowStamp,
        total_files |-> Cardinality(DOMAIN acc.files),
        total_tokens_if_full_read |-> acc.total_tokens,
        files |-> acc.files,
        modules |-> acc.modules]

----------------------------------------------------------------------------
(* MemoryUpdater._reindex_files: memory/memory_updater.py *)

RemoveKey(items, k) == [x \in (DOMAIN items) \ {k} |-> items[x]]

\* a pass that builds the record anew, as index() does
ReindexOne_new_record(files_data, rel_path, content) ==
    IF ~Exists(content)
    THEN RemoveKey(files_data, rel_path)
    ELSE IF content.kind = "unreadable"
    THEN files_data
    ELSE SetItem(files_data, rel_path,
                 SetItem(EmptyDict, "token_count", count_tokens(content)))

\* one pass of the loop of _reindex_files over rel_path
ReindexOne(files_data, rel_path, content) ==
    IF ~Exists(content)
    THEN RemoveKey(files_data, rel_path)
    ELSE IF content.kind = "unreadable"
    THEN files_data
    ELSE SetItem(files_data, rel_path,
                 SetItem(GetItem(files_data, rel_path, EmptyDict),
                         "token_count", count_tokens(content)))

RECURSIVE ReindexLoop(_, _, _, _, _, _, _)
ReindexLoop(file_paths, i, files_data, tree, index_file, memory_file, bak_file) ==
    IF i > Len(file_paths)
    THEN files_data
    ELSE ReindexLoop(file_paths, i + 1,
                     ReindexOne(files_data, file_paths[i],
                                FileAt(tree, index_file, memory_file, bak_file,
                                       file_paths[i])),
                     tree, index_file, memory_file, bak_file)

RECURSIVE SumTokens(_, _)
SumTokens(files_data, keys) ==
    IF keys = {} THEN 0
    ELSE LET k == CHOOSE x \in keys : TRUE
         IN GetItem(files_data[k], "token_count", 0) + SumTokens(files_data, keys \ {k})

\* _reindex_files() that keeps the totals it loaded
reindex_files_stale_totals(file_paths, tree, index_file, memory_file, bak_file) ==
    [indexer_load(index_file) EXCEPT
        !.files = ReindexLoop(file_paths, 1, indexer_load(index_file).files, tree,
                              index_file, memory_file, bak_file)]

\* _reindex_files(file_paths): the index it writes
reindex_files(file_paths, tree, index_file, memory_file, bak_file) ==
    LET loaded == indexer_load(index_file)
        files_data == ReindexLoop(file_paths, 1, loaded.files, tree, index_file,
                                  memory_file, bak_file)
    IN [loaded EXCEPT
            !.total_tokens_if_full_read = SumTokens(files_data, DOMAIN files_data),
            !.total_files = Cardinality(DOMAIN files_data),
            !.files = files_data]

\* ChangeAnalysis.affected_files of a change request
ChangeLists == {<<P_login>>, <<P_main, P_dep>>, <<P_logo>>}

----------------------------------------------------------------------------
(* MemoryUpdater.update_after_change: memory/memory_updater.py *)

\* the second argument, whatever the first
Max_second(a, b) == b

Max(a, b) == IF a >= b THEN a ELSE b

\* a loop that registers the affected modules it does not find
mark_in_progress_registering(cur, affected_modules) ==
    PyDict(SetItem(cur.items, "modules",
        [n \in DOMAIN GetItem(cur.items, "modules", EmptyDict) \cup Range(affected_modules) |->
            IF n \in Range(affected_modules)
            THEN SetItem(GetItem(GetItem(cur.items, "modules", EmptyDict), n, EmptyDict),
                         "status", "in_progress")
            ELSE cur.items["modules"][n]]))

\* for mod_name in affected_modules: mod = get_module(mod_name);
\* if mod is not None: mod["status"] = "in_progress"
mark_in_progress(cur, affected_modules) ==
    IF "modules" \notin DOMAIN cur.items
    THEN cur
    ELSE PyDict(SetItem(cur.items, "modules",
             [n \in DOMAIN cur.items["modules"] |->
                 IF n \in Range(affected_modules)
                 THEN SetItem(cur.items["modules"][n], "status", "in_progress")
                 ELSE cur.items["modules"][n]]))

\* update_after_change(change_description, analysis, tokens_used, full_codebase_tokens)
CycleInputs ==
    {[change_description |-> "Added login",
      analysis |-> [affected_files |-> <<P_login>>, affected_modules |-> <<"auth">>],
      tokens_used |-> 300, full_codebase_tokens |-> 5300],
     [change_description |-> "Fixed bug",
      analysis |-> [affected_files |-> <<P_main, P_dep>>,
                    affected_modules |-> <<"api", "auth">>],
      tokens_used |-> 10, full_codebase_tokens |-> 4]}

\* update_after_change() that records the change on a blank record, without load()
update_after_change_unloaded(change_description, analysis, tokens_used, full_codebase_tokens, memory_file, bak_file, index_file, tree) ==
    LET changed == add_change(default_memory(NowStamp), change_description,
                              analysis.affected_files, tokens_used,
                              Max(0, full_codebase_tokens - tokens_used), NowStamp)
        saved == save(changed.data, memory_file, NowStamp)
    IN [data |-> saved.data,
        memFile |-> saved.memFile,
        bakFile |-> bak_file,
        idxFile |-> write_index(reindex_files(analysis.affected_files, tree,
                                              index_file, saved.memFile, bak_file)),
        exc |-> "none"]

\* update_after_change(): the updater's record, the files it leaves and the
\* exception it raises.  The updater owns a MemoryManager of its own.
update_after_change(change_description, analysis, tokens_used, full_codebase_tokens, memory_file, bak_file, index_file, tree) ==
    LET loaded == load(memory_file, bak_file, NewManagerData, NowStamp)
        tokens_saved == Max(0, full_codebase_tokens - tokens_used)
        changed == add_change(loaded.data, change_description, analysis.affected_files,
                              tokens_used, tokens_saved, NowStamp)
        marked == mark_in_progress(changed.data, analysis.affected_modules)
        saved == save(marked, loaded.memFile, NowStamp)
        raised(e) == [data |-> loaded.data, memFile |-> loaded.memFile,
                      bakFile |-> loaded.bakFile, idxFile |-> index_file, exc |-> e]
    IN IF loaded.exc # "none" THEN raised(loaded.exc)
       ELSE IF changed.exc # "none" THEN raised(changed.exc)
       ELSE [data |-> saved.data,
             memFile |-> saved.memFile,
             bakFile |-> loaded.bakFile,
             idxFile |-> write_index(reindex_files(analysis.affected_files, tree,
                                                   index_file, saved.memFile,
                                                   loaded.bakFile)),
             exc |-> "none"]

----------------------------------------------------------------------------
(* The write of save() and of _write_index(), step by step:                *)
(* mkstemp in .preflight/, json.dump into the temporary file, os.replace   *)
(* over the target; on an exception the temporary file is unlinked.        *)

WriterIdle ==
    /\ wpc = "idle"
    /\ wTarget = "memory"
    /\ wDoc = Absent
    /\ tmpFile = Absent
    /\ seen = Absent

\* a local that is not bound yet
Unbound == [unbound |-> TRUE]

\* no call_ai() under way
NotAsking == [fn |-> "none", attempt |-> 0, strict |-> FALSE]

\* no index loaded, no package built, no classification under way
CtxIdle ==
    /\ gotIndex = Unbound
    /\ pkg = Unbound
    /\ apc = NotAsking
    /\ requests = 0
    /\ sends = 0
    /\ intent = Unbound

\* the two processes that update the memory
Writers == {"A", "B"}

\* run_change() not called
NoRun == [stage |-> "idle"]

\* no cost estimated, no config file written, no update and no run under way
RunIdle ==
    /\ cost = Unbound
    /\ claudeMd = Absent
    /\ geminiMd = Absent
    /\ pc = [w \in Writers |-> [at |-> "idle", saved |-> << >>]]
    /\ rpc = NoRun
    /\ waiting = FALSE

\* tempfile.mkstemp: a new, empty file
mkstemp(doc) == [kind |-> "partial", value |-> doc.value, n |-> 0]

\* open(path, "w") and json.dump straight into the target
dump_chunk_in_place(target_file, tmp_file, doc) ==
    [target |-> IF tmp_file.n + 1 >= WriteChunks
                THEN doc
                ELSE [tmp_file EXCEPT !.n = tmp_file.n + 1],
     tmp |-> tmp_file]

\* one flush of json.dump(data, f): the files after it
dump_chunk(target_file, tmp_file, doc) ==
    [target |-> target_file,
     tmp |-> IF tmp_file.n + 1 >= WriteChunks
             THEN doc
             ELSE [tmp_file EXCEPT !.n = tmp_file.n + 1]]

\* os.replace(tmp_path, path): the files after it
replace(target_file, tmp_file) == [target |-> tmp_file, tmp |-> Absent]

TargetFile == IF wTarget = "memory" THEN memFile ELSE idxFile

SetTarget(file) ==
    /\ memFile' = IF wTarget = "memory" THEN file ELSE memFile
    /\ idxFile' = IF wTarget = "index" THEN file ELSE idxFile

\* save(), lines 67-76: stamp, mkdir, mkstemp
SaveBegin ==
    /\ wpc = "idle"
    /\ IsDict(data)
    /\ data' = save(data, memFile, NowStamp).data
    /\ wpc' = "tmp"
    /\ wTarget' = "memory"
    /\ wDoc' = JsonDump(data')
    /\ tmpFile' = mkstemp(wDoc')
    /\ exc' = "none"
    /\ UNCHANGED <<memFile, bakFile, fresh, idxVars, seen, ctxVars, runVars>>

\* index(), lines 67-108, then _write_index(), lines 201-204
IndexBegin ==
    /\ wpc = "idle"
    /\ wpc' = "tmp"
    /\ wTarget' = "index"
    /\ wDoc' = JsonDump(index(fs, idxFile, memFile, bakFile))
    /\ tmpFile' = mkstemp(wDoc')
    /\ exc' = "none"
    /\ UNCHANGED <<memFile, bakFile, data, fresh, idxVars, seen, ctxVars, runVars>>

\* _reindex_files(), lines 89-114, then _write_index(), lines 201-204
ReindexBegin ==
    \E file_paths \in ChangeLists :
        /\ wpc = "idle"
        /\ wpc' = "tmp"
        /\ wTarget' = "index"
        /\ wDoc' = JsonDump(reindex_files(file_paths, fs, idxFile, memFile, bakFile))
        /\ tmpFile' = mkstemp(wDoc')
        /\ exc' = "none"
        /\ UNCHANGED <<memFile, bakFile, data, fresh, idxVars, seen, ctxVars, runVars>>

\* json.dump flushes a part of the document
DumpChunk ==
    /\ wpc = "tmp"
    /\ tmpFile.kind = "partial"
    /\ tmpFile' = dump_chunk(TargetFile, tmpFile, wDoc).tmp
    /\ SetTarget(dump_chunk(TargetFile, tmpFile, wDoc).target)
    /\ UNCHANGED <<bakFile, data, fresh, exc, fs, wpc, wTarget, wDoc, seen, ctxVars, runVars>>

\* os.replace, and the call returns
Replace ==
    /\ wpc = "tmp"
    /\ tmpFile.kind = "json"
    /\ tmpFile' = replace(TargetFile, tmpFile).tmp
    /\ SetTarget(replace(TargetFile, tmpFile).target)
    /\ wpc' = "idle"
    /\ wDoc' = Absent
    /\ UNCHANGED <<bakFile, data, fresh, exc, fs, wTarget, seen, ctxVars, runVars>>

\* the write raises (the disk is full): the temporary file is unlinked
DumpFails ==
    /\ wpc = "tmp"
    /\ tmpFile' = Absent
    /\ wpc' = "idle"
    /\ exc' = "OSError"
    /\ wDoc' = Absent
    /\ UNCHANGED <<memFile, bakFile, data, fresh, idxVars, wTarget, seen, ctxVars, runVars>>

\* the process dies; its temporary file stays in .preflight/ under a name of its
\* own, and the next process starts with an empty record
Crash ==
    /\ wpc = "tmp"
    /\ wpc' = "idle"
    /\ tmpFile' = Absent
    /\ data' = NewManagerData
    /\ exc' = "none"
    /\ wDoc' = Absent
    /\ UNCHANGED <<memFile, bakFile, fresh, idxVars, wTarget, seen, ctxVars, runVars>>

\* another process reads memory.json or file-index.json
Read ==
    \E file \in {memFile, idxFile} :
        /\ seen' = file
        /\ UNCHANGED <<memVars, idxVars, wpc, wTarget, wDoc, tmpFile, ctxVars, runVars>>

----------------------------------------------------------------------------
(* The index operations as actions *)

\* FileIndexer(root).index()
Index ==
    /\ idxFile' = write_index(index(fs, idxFile, memFile, bakFile))
    /\ UNCHANGED <<memVars, fs, wrVars, ctxVars, runVars>>

\* MemoryUpdater(root)._reindex_files(file_paths)
ReindexFilesOf(file_paths) ==
    /\ idxFile' = write_index(reindex_files(file_paths, fs, idxFile, memFile, bakFile))
    /\ UNCHANGED <<memVars, fs, wrVars, ctxVars, runVars>>

ReindexFiles == \E file_paths \in ChangeLists : ReindexFilesOf(file_paths)

\* the developer or the assistant writes or deletes a project file
WriteFile ==
    \E p \in ProjectPaths, c \in Contents :
        /\ fs' = [fs EXCEPT ![p] = c]
        /\ UNCHANGED <<memVars, idxFile, wrVars, ctxVars, runVars>>

DeleteFile ==
    \E p \in ProjectPaths :
        /\ Exists(fs[p])
        /\ fs' = [fs EXCEPT ![p] = Absent]
        /\ UNCHANGED <<memVars, idxFile, wrVars, ctxVars, runVars>>

InitIdx ==
    /\ memFile = Absent
    /\ bakFile = Absent
    /\ data = NewManagerData
    /\ fresh = NewManagerData
    /\ exc = "none"
    /\ fs = [p \in ProjectPaths |-> Absent]
    /\ idxFile = Absent
    /\ WriterIdle
    /\ CtxIdle
    /\ RunIdle

NextIdx ==
    \/ Index
    \/ ReindexFiles
    \/ WriteFile
    \/ DeleteFile

SpecIdx == InitIdx /\ [][NextIdx]_vars

----------------------------------------------------------------------------
(* The calls as actions *)

Load ==
    /\ data' = load(memFile, bakFile, data, NowStamp).data
    /\ memFile' = load(memFile, bakFile, data, NowStamp).memFile
    /\ bakFile' = load(memFile, bakFile, data, NowStamp).bakFile
    /\ exc' = load(memFile, bakFile, data, NowStamp).exc
    /\ fresh' = NewManagerData
    /\ UNCHANGED <<idxVars, wrVars, ctxVars, runVars>>

\* mm2 = MemoryManager(root); mm2.load()
FreshLoad ==
    /\ fresh' = load(memFile, bakFile, NewManagerData, NowStamp).data
    /\ memFile' = load(memFile, bakFile, NewManagerData, NowStamp).memFile
    /\ bakFile' = load(memFile, bakFile, NewManagerData, NowStamp).bakFile
    /\ exc' = load(memFile, bakFile, NewManagerData, NowStamp).exc
    /\ UNCHANGED <<data, idxVars, wrVars, ctxVars, runVars>>

Save ==
    /\ data' = save(data, memFile, NowStamp).data
    /\ memFile' = save(data, memFile, NowStamp).memFile
    /\ exc' = save(data, memFile, NowStamp).exc
    /\ fresh' = NewManagerData
    /\ UNCHANGED <<bakFile, idxVars, wrVars, ctxVars, runVars>>

GetModule ==
    \E name \in ModuleNames :
        /\ exc' = get_module(data, name).exc
        /\ fresh' = NewManagerData
        /\ UNCHANGED <<memFile, bakFile, data, idxVars, wrVars, ctxVars, runVars>>

GetDecisionsForModules ==
    \E names \in {<<"auth">>, <<"auth", "api">>} :
        /\ exc' = get_decisions_for_modules(data, names).exc
        /\ fresh' = NewManagerData
        /\ UNCHANGED <<memFile, bakFile, data, idxVars, wrVars, ctxVars, runVars>>

SetModule ==
    \E m \in ModuleInputs :
        /\ data' = set_module(data, m.name, m.status, m.files, "", << >>).data
        /\ exc' = set_module(data, m.name, m.status, m.files, "", << >>).exc
        /\ fresh' = NewManagerData
        /\ UNCHANGED <<memFile, bakFile, idxVars, wrVars, ctxVars, runVars>>

AddDecision ==
    \E d \in DecisionInputs :
        /\ Len(Decisions(data)) < MaxDecisions
        /\ data' = add_decision(data, d.decision, d.reason, d.affects, NowStamp).data
        /\ exc' = add_decision(data, d.decision, d.reason, d.affects, NowStamp).exc
        /\ fresh' = NewManagerData
        /\ UNCHANGED <<memFile, bakFile, idxVars, wrVars, ctxVars, runVars>>

AddChangeOf(c) ==
        /\ Len(ChangeHistory(data)) < MaxChanges
        /\ data' = add_change(data, c.description, c.files_changed, c.tokens_used,
                              c.tokens_saved, NowStamp).data
        /\ exc' = add_change(data, c.description, c.files_changed, c.tokens_used,
                             c.tokens_saved, NowStamp).exc
        /\ fresh' = NewManagerData
        /\ UNCHANGED <<memFile, bakFile, idxVars, wrVars, ctxVars, runVars>>

AddChange == \E c \in ChangeInputs : AddChangeOf(c)

\* MemoryUpdater(root).update_after_change(...): the updater and its manager are
\* locals of the caller
UpdateAfterChangeOf(c) ==
    LET r == update_after_change(c.change_description, c.analysis, c.tokens_used,
                                 c.full_codebase_tokens, memFile, bakFile, idxFile, fs)
    IN /\ Len(ChangeHistory(load(memFile, bakFile, NewManagerData, NowStamp).data))
              < MaxChanges
       /\ memFile' = r.memFile
       /\ bakFile' = r.bakFile
       /\ idxFile' = r.idxFile
       /\ exc' = r.exc
       /\ fresh' = NewManagerData
       /\ UNCHANGED <<data, fs, wrVars, ctxVars, runVars>>

UpdateAfterChange == \E c \in CycleInputs : UpdateAfterChangeOf(c)

\* something other than save() writes the memory file location
ExternalWrite ==
    \E content \in {GarbageText, GarbageBytes, JsonDump(PyList)} :
        /\ memFile' = content
        /\ exc' = "none"
        /\ fresh' = NewManagerData
        /\ UNCHANGED <<bakFile, data, idxVars, wrVars, ctxVars, runVars>>

Init ==
    /\ memFile = Absent
    /\ bakFile = Absent
    /\ data = NewManagerData
    /\ fresh = NewManagerData
    /\ exc = "none"
    /\ fs = ProjectTree
    /\ idxFile = Absent
    /\ WriterIdle
    /\ CtxIdle
    /\ RunIdle

Next ==
    \/ Load
    \/ FreshLoad
    \/ Save
    \/ GetModule
    \/ GetDecisionsForModules
    \/ SetModule
    \/ AddDecision
    \/ AddChange
    \/ ExternalWrite

Spec == Init /\ [][Next]_vars

\* the manager's mutators and the change cycles of change_mode.run_change
NextCycle ==
    \/ Load
    \/ Save
    \/ SetModule
    \/ AddDecision
    \/ AddChange
    \/ UpdateAfterChange

SpecCycle == Init /\ [][NextCycle]_vars

\* the calls that change the record between two saves
Mutate ==
    /\ wpc = "idle"
    /\ SetModule

NextWrite ==
    \/ SaveBegin
    \/ IndexBegin
    \/ ReindexBegin
    \/ DumpChunk
    \/ Replace
    \/ DumpFails
    \/ Crash
    \/ Read
    \/ Mutate

SpecWrite == Init /\ [][NextWrite]_vars

----------------------------------------------------------------------------
(* Text: a Python str is the sequence of its characters *)

\* the characters of the names and import targets of the project
Chars(s) ==
    CASE s = "main.py" -> <<"m", "a", "i", "n", ".", "p", "y">>
      [] s = "src" -> <<"s", "r", "c">>
      [] s = "auth" -> <<"a", "u", "t", "h">>
      [] s = "login.py" -> <<"l", "o", "g", "i", "n", ".", "p", "y">>
      [] s = "api" -> <<"a", "p", "i">>
      [] s = "users.py" -> <<"u", "s", "e", "r", "s", ".", "p", "y">>
      [] s = "web" -> <<"w", "e", "b">>
      [] s = "node_modules" -> <<"n", "o", "d", "e", "_", "m", "o", "d", "u", "l", "e", "s">>
      [] s = "x.js" -> <<"x", ".", "j", "s">>
      [] s = "docs" -> <<"d", "o", "c", "s">>
      [] s = "logo.png" -> <<"l", "o", "g", "o", ".", "p", "n", "g">>
      [] s = "auth.login" -> <<"a", "u", "t", "h", ".", "l", "o", "g", "i", "n">>
      [] s = "api.users" -> <<"a", "p", "i", ".", "u", "s", "e", "r", "s">>
      [] s = "os" -> <<"o", "s">>
      [] OTHER -> << >>

\* str(path): the segments joined by "/"
RECURSIVE PathText(_)
PathText(path) ==
    IF path = << >> THEN << >>
    ELSE IF Len(path) = 1 THEN Chars(path[1])
    ELSE Chars(path[1]) \o <<"/">> \o PathText(Tail(path))

\* text.replace(".", "/")
ReplaceDots(text) == [i \in 1..Len(text) |-> IF text[i] = "." THEN "/" ELSE text[i]]

\* sub in text
Contains(sub, text) ==
    \E i \in 0..(Len(text) - Len(sub)) : SubSeq(text, i + 1, i + Len(sub)) = sub

----------------------------------------------------------------------------
(* core/compressor.py *)

\* what one pass of compress_content(text, aggressive=True) leaves of a line:
\* comments go, and a docstring hidden behind a JS comment marker comes out as a
\* docstring
CompressLine(line) == IF line = "masked" THEN "comment" ELSE line

RECURSIVE CompressLines(_)
CompressLines(body) ==
    IF body = << >> THEN << >>
    ELSE IF Head(body) = "comment" THEN CompressLines(Tail(body))
    ELSE <<CompressLine(Head(body))>> \o CompressLines(Tail(body))

\* compress_content applied until the text is under the threshold or stops shrinking
compress_content_twice(content) ==
    IF content.kind = "src"
    THEN [content EXCEPT !.body = CompressLines(CompressLines(content.body))]
    ELSE content

\* compress_content(text, aggressive=True)
compress_content(content) ==
    IF content.kind = "src"
    THEN [content EXCEPT !.body = CompressLines(content.body)]
    ELSE content

----------------------------------------------------------------------------
(* ContextFinder: memory/context_finder.py *)

\* the files of a change-mode project
P_ghost == <<"src", "auth", "gone.py">>

CtxPaths == {P_main, P_login, P_users}

\* main.py: exactly the context threshold of code, importing auth.login
SrcMain ==
    [kind |-> "src", body |-> <<"block", "block">>,
     imports |-> <<"auth.login", "os">>, exports |-> << >>]

\* src/auth/login.py: code, a comment and a masked docstring, importing api.users
SrcLogin ==
    [kind |-> "src", body |-> <<"code", "comment", "masked">>,
     imports |-> <<"api.users">>, exports |-> <<"login_user">>]

SrcUsers ==
    [kind |-> "src", body |-> <<"code">>,
     imports |-> <<"src">>, exports |-> << >>]

SourceOf(p) ==
    CASE p = P_main -> SrcMain
      [] p = P_login -> SrcLogin
      [] OTHER -> SrcUsers

CtxTree == [p \in CtxPaths |-> SourceOf(p)]

\* ChangeAnalysis values the classifier returns
AnalysisInputs ==
    {[affected_files |-> <<P_main>>, affected_modules |-> <<"root">>],
     [affected_files |-> <<P_login, P_ghost>>, affected_modules |-> <<"auth", "billing">>],
     [affected_files |-> <<P_main, P_users>>, affected_modules |-> <<"api", "auth">>],
     [affected_files |-> << >>, affected_modules |-> << >>]}

\* the exception FileIndexer.load() raises
indexer_load_exc(index_file) ==
    IF JsonLoadsExc(index_file) \in {"none", "JSONDecodeError", "OSError"}
    THEN "none"
    ELSE JsonLoadsExc(index_file)

\* the keys of the files dict of an index index() built, in insertion order
KeysInOrder(files_in_index) ==
    LET Indexed(p) == p \in DOMAIN files_in_index
    IN SelectSeq(WalkOrder, Indexed)

\* imp.replace(".", "/") in idx_path or imp in idx_path
ImportMatches(imp, idx_path) ==
    \/ Contains(ReplaceDots(Chars(imp)), PathText(idx_path))
    \/ Contains(Chars(imp), PathText(idx_path))

\* for idx_path in files_in_index: if ...: files_to_load.add(idx_path); break
FirstMatch(imp, files_in_index) ==
    LET Hit(p) == ImportMatches(imp, p)
        hits == SelectSeq(KeysInOrder(files_in_index), Hit)
    IN IF hits = << >> THEN {} ELSE {hits[1]}

\* the imports the index records for the files of a set
ImportsOf(paths, files_in_index) ==
    UNION {Range(GetItem(files_in_index[f], "imports", << >>)) :
              f \in paths \cap DOMAIN files_in_index}

\* the import expansion that goes on until no file is added
RECURSIVE files_to_load_transitive(_, _)
files_to_load_transitive(affected_files, files_in_index) ==
    LET added == affected_files \cup
                 UNION {FirstMatch(imp, files_in_index) :
                           imp \in ImportsOf(affected_files, files_in_index)}
    IN IF added = affected_files THEN added
       ELSE files_to_load_transitive(added, files_in_index)

\* lines 208-218: the affected files and, for each of them the index records,
\* the first index path matching each of its imports
files_to_load(affected_files, files_in_index) ==
    affected_files \cup
    UNION {FirstMatch(imp, files_in_index) :
              imp \in ImportsOf(affected_files, files_in_index)}

\* a load that gives a missing or unreadable file an empty content
files_content_read_all(paths, tree, index_file, memory_file, bak_file) ==
    [p \in paths |->
        IF FileAt(tree, index_file, memory_file, bak_file, p).kind = "src"
        THEN FileAt(tree, index_file, memory_file, bak_file, p)
        ELSE [kind |-> "src", body |-> << >>, imports |-> << >>, exports |-> << >>]]

\* lines 221-230: the contents of the files to load that exist and can be read
files_content_read(paths, tree, index_file, memory_file, bak_file) ==
    LET Readable(p) ==
            /\ Exists(FileAt(tree, index_file, memory_file, bak_file, p))
            /\ FileAt(tree, index_file, memory_file, bak_file, p).kind # "unreadable"
    IN [p \in {q \in paths : Readable(q)} |->
           FileAt(tree, index_file, memory_file, bak_file, p)]

\* sum(count_tokens(v) for v in files_content.values())
RECURSIVE SumContentTokens(_, _)
SumContentTokens(files_content, keys) ==
    IF keys = {} THEN 0
    ELSE LET k == CHOOSE x \in keys : TRUE
         IN count_tokens(files_content[k]) + SumContentTokens(files_content, keys \ {k})

\* a package whose total is never recomputed after compression
compress_over_threshold_stale(files_content) ==
    LET total_tokens == SumContentTokens(files_content, DOMAIN files_content)
    IN IF total_tokens > CONTEXT_TOKEN_THRESHOLD
       THEN [files |-> [p \in DOMAIN files_content |-> compress_content(files_content[p])],
             total_tokens |-> total_tokens]
       ELSE [files |-> files_content, total_tokens |-> total_tokens]

\* lines 248-253: compress every loaded file if the total is over the threshold
compress_over_threshold(files_content) ==
    LET total_tokens == SumContentTokens(files_content, DOMAIN files_content)
        compressed == [p \in DOMAIN files_content |-> compress_content(files_content[p])]
    IN IF total_tokens > CONTEXT_TOKEN_THRESHOLD
       THEN [files |-> compressed,
             total_tokens |-> SumContentTokens(compressed, DOMAIN compressed)]
       ELSE [files |-> files_content, total_tokens |-> total_tokens]

\* one line of a module summary: "- {mf}: {purpose} ({token_count} tokens)"
SummaryLine(mf, files_in_index) ==
    LET info == GetItem(files_in_index, mf, EmptyDict)
    IN [path |-> mf,
        purpose |-> GetItem(info, "purpose", "no description"),
        token_count |-> GetItem(info, "token_count", 0)]

NoFiles == <<[placeholder |-> "no files"]>>

\* lines 233-242: the summary of one module, its lines joined by "\n"
module_summary(mod_name, idx) ==
    LET mod_files == GetItem(idx.modules, mod_name, << >>)
    IN IF mod_files = << >>
       THEN NoFiles
       ELSE [i \in 1..Len(mod_files) |-> SummaryLine(mod_files[i], idx.files)]

\* summaries of every module the index knows
module_summaries_of_index(affected_modules, idx) ==
    [m \in DOMAIN idx.modules \cup Range(affected_modules) |-> module_summary(m, idx)]

module_summaries(affected_modules, idx) ==
    [m \in Range(affected_modules) |-> module_summary(m, idx)]

\* the tokens of the summaries and decisions of a package, counted at one token
\* for each summary line and each decision (count_tokens gives each at least one)
RECURSIVE SummaryTokens(_, _)
SummaryTokens(summaries, keys) ==
    IF keys = {} THEN 0
    ELSE LET k == CHOOSE x \in keys : TRUE
         IN Len(summaries[k]) + SummaryTokens(summaries, keys \ {k})

\* build_context() whose total counts the summaries and the decisions as well
build_context_counting_all(analysis, tree, index_file, memory_file, bak_file) ==
    LET idx == indexer_load(index_file)
        mem == load(memory_file, bak_file, NewManagerData, NowStamp)
        paths == files_to_load(Range(analysis.affected_files), idx.files)
        read == files_content_read(paths, tree, index_file, mem.memFile, mem.bakFile)
        packed == compress_over_threshold(read)
        decisions == get_decisions_for_modules(mem.data, analysis.affected_modules)
        summaries == module_summaries(analysis.affected_modules, idx)
        raised(e, m, b, d) ==
            [pkg |-> Unbound, exc |-> e, memFile |-> m, bakFile |-> b, data |-> d]
    IN IF indexer_load_exc(index_file) # "none"
       THEN raised(indexer_load_exc(index_file), memory_file, bak_file, NewManagerData)
       ELSE IF mem.exc # "none"
       THEN raised(mem.exc, mem.memFile, mem.bakFile, mem.data)
       ELSE IF decisions.exc # "none"
       THEN raised(decisions.exc, mem.memFile, mem.bakFile, mem.data)
       ELSE [pkg |-> [files |-> packed.files,
                      decisions |-> decisions.value,
                      module_summaries |-> summaries,
                      total_tokens |-> packed.total_tokens
                                       + SummaryTokens(summaries, DOMAIN summaries)
                                       + Len(decisions.value),
                      analysis |-> analysis],
             exc |-> "none",
             memFile |-> mem.memFile, bakFile |-> mem.bakFile, data |-> mem.data]

\* build_context(analysis): the package, the record its manager loaded, the
\* files the load leaves and the exception raised
build_context(analysis, tree, index_file, memory_file, bak_file) ==
    LET idx == indexer_load(index_file)
        mem == load(memory_file, bak_file, NewManagerData, NowStamp)
        paths == files_to_load(Range(analysis.affected_files), idx.files)
        read == files_content_read(paths, tree, index_file, mem.memFile, mem.bakFile)
        packed == compress_over_threshold(read)
        decisions == get_decisions_for_modules(mem.data, analysis.affected_modules)
        raised(e, m, b, d) ==
            [pkg |-> Unbound, exc |-> e, memFile |-> m, bakFile |-> b, data |-> d]
    IN IF indexer_load_exc(index_file) # "none"
       THEN raised(indexer_load_exc(index_file), memory_file, bak_file, NewManagerData)
       ELSE IF mem.exc # "none"
       THEN raised(mem.exc, mem.memFile, mem.bakFile, mem.data)
       ELSE IF decisions.exc # "none"
       THEN raised(decisions.exc, mem.memFile, mem.bakFile, mem.data)
       ELSE [pkg |-> [files |-> packed.files,
                      decisions |-> decisions.value,
                      module_summaries |-> module_summaries(analysis.affected_modules,
                                                            idx),
                      total_tokens |-> packed.total_tokens,
                      analysis |-> analysis],
             exc |-> "none",
             memFile |-> mem.memFile, bakFile |-> mem.bakFile, data |-> mem.data]

\* one part of the text to_injection_text() joins by blank lines
Heading(title) == [heading |-> title]

RECURSIVE DictItems(_, _)
DictItems(items, keys) ==
    IF keys = {} THEN << >>
    ELSE LET k == CHOOSE x \in keys : TRUE
         IN <<[key |-> k, value |-> items[k]]>> \o DictItems(items, keys \ {k})

\* to_injection_text() that always writes the three headings
to_injection_text_all_headings(package) ==
    <<Heading("## Relevant Modules")>>
    \o [i \in 1..Cardinality(DOMAIN package.module_summaries) |->
           [module |-> DictItems(package.module_summaries,
                                 DOMAIN package.module_summaries)[i]]]
    \o <<Heading("## Relevant Files")>>
    \o [i \in 1..Cardinality(DOMAIN package.files) |->
           [file |-> DictItems(package.files, DOMAIN package.files)[i]]]
    \o <<Heading("## Relevant Decisions")>>
    \o [i \in 1..Len(package.decisions) |->
           [decision |-> package.decisions[i].decision,
            reason |-> package.decisions[i].reason]]

\* to_injection_text(): the parts of the text, in order
to_injection_text(package) ==
    (IF DOMAIN package.module_summaries # {}
     THEN <<Heading("## Relevant Modules")>>
          \o [i \in 1..Cardinality(DOMAIN package.module_summaries) |->
                 [module |-> DictItems(package.module_summaries,
                                       DOMAIN package.module_summaries)[i]]]
     ELSE << >>)
    \o (IF DOMAIN package.files # {}
        THEN <<Heading("## Relevant Files")>>
             \o [i \in 1..Cardinality(DOMAIN package.files) |->
                    [file |-> DictItems(package.files, DOMAIN package.files)[i]]]
        ELSE << >>)
    \o (IF package.decisions # << >>
        THEN <<Heading("## Relevant Decisions")>>
             \o [i \in 1..Len(package.decisions) |->
                    [decision |-> package.decisions[i].decision,
                     reason |-> package.decisions[i].reason]]
        ELSE << >>)

----------------------------------------------------------------------------
(* A change-mode run (modes/change_mode.py): the index and the package are *)
(* locals of run_change; the project changes between runs                    *)

\* no run under way
Quiet ==
    /\ pkg = Unbound
    /\ gotIndex = Unbound

CtxIndex ==
    /\ Quiet
    /\ Index

CtxAddDecision ==
    /\ Quiet
    /\ AddDecision

CtxSave ==
    /\ Quiet
    /\ Save

\* what the developer leaves at a path: its source, or for login.py a file
\* that cannot be read
Writable(p) == IF p = P_login THEN {SourceOf(p), Unreadable} ELSE {SourceOf(p)}

\* the developer writes, protects or deletes a source file
WriteSource ==
    \E p \in CtxPaths : \E c \in Writable(p) :
        /\ Quiet
        /\ fs[p] # c
        /\ fs' = [fs EXCEPT ![p] = c]
        /\ UNCHANGED <<memVars, idxFile, wrVars, ctxVars, runVars>>

RemoveSource ==
    \E p \in CtxPaths :
        /\ Quiet
        /\ Exists(fs[p])
        /\ fs' = [fs EXCEPT ![p] = Absent]
        /\ UNCHANGED <<memVars, idxFile, wrVars, ctxVars, runVars>>

\* something other than _write_index() writes the index file location
CorruptIndex ==
    \E content \in {GarbageText, GarbageBytes} :
        /\ Quiet
        /\ idxFile' = content
        /\ UNCHANGED <<memVars, fs, wrVars, ctxVars, runVars>>

\* index = FileIndexer(project_root).load()
IndexerLoad ==
    /\ Quiet
    /\ exc' = indexer_load_exc(idxFile)
    /\ gotIndex' = IF indexer_load_exc(idxFile) = "none"
                   THEN indexer_load(idxFile)
                   ELSE gotIndex
    /\ fresh' = NewManagerData
    /\ UNCHANGED <<memFile, bakFile, data, idxVars, wrVars, runVars, pkg, apc, requests, sends,
                   intent>>

BuildContextOf(analysis) ==
    LET r == build_context(analysis, fs, idxFile, memFile, bakFile)
    IN /\ Quiet
       /\ pkg' = r.pkg
       /\ exc' = r.exc
       /\ data' = r.data
       /\ memFile' = r.memFile
       /\ bakFile' = r.bakFile
       /\ fresh' = NewManagerData
       /\ UNCHANGED <<idxVars, wrVars, runVars, gotIndex, apc, requests, sends, intent>>

\* context = finder.build_context(analysis)
BuildContext == \E analysis \in AnalysisInputs : BuildContextOf(analysis)

\* the run ends: the text of the package is handed to the builders
EndRun ==
    /\ ~Quiet
    /\ pkg' = Unbound
    /\ gotIndex' = Unbound
    /\ UNCHANGED <<memVars, idxVars, wrVars, runVars, apc, requests, sends, intent>>

InitCtx ==
    /\ memFile = Absent
    /\ bakFile = Absent
    /\ data = NewManagerData
    /\ fresh = NewManagerData
    /\ exc = "none"
    /\ fs = CtxTree
    /\ idxFile = Absent
    /\ WriterIdle
    /\ CtxIdle
    /\ RunIdle

NextCtx ==
    \/ CtxIndex
    \/ CtxAddDecision
    \/ CtxSave
    \/ WriteSource
    \/ RemoveSource
    \/ CorruptIndex
    \/ IndexerLoad
    \/ BuildContext
    \/ EndRun

SpecCtx == InitCtx /\ [][NextCtx]_vars

----------------------------------------------------------------------------
(* The classifier: ContextFinder.analyze_change (memory/context_finder.py), *)
(* parse_idea (ai/idea_parser.py) and call_ai (ai/provider.py)              *)

\* the API requests the provider may send for one call_ai() before the rate
\* limit clears
MaxSends == 3

\* a call_ai() under way: who called, which attempt, with which instruction
Asking(fn, attempt, strict) == [fn |-> fn, attempt |-> attempt, strict |-> strict]

\* a second failure is retried as well
on_none_retry_again(attempt) == IF attempt <= 2 THEN "retry" ELSE "raise"

\* what follows a call_ai() that returned None: the retry after the first
\* attempt, ValueError after the second
on_none(attempt) == IF attempt = 1 THEN "retry" ELSE "raise"

\* analyze_change(description), lines 141-167: load the index, first call_ai()
AnalyzeChange ==
    /\ apc = NotAsking
    /\ exc' = indexer_load_exc(idxFile)
    /\ intent' = Unbound
    /\ IF indexer_load_exc(idxFile) = "none"
       THEN /\ apc' = Asking("analyze_change", 1, FALSE)
            /\ requests' = 1
            /\ sends' = 1
       ELSE /\ apc' = NotAsking
            /\ requests' = 0
            /\ sends' = 0
    /\ fresh' = NewManagerData
    /\ UNCHANGED <<memFile, bakFile, data, idxVars, wrVars, runVars, gotIndex, pkg>>

\* parse_idea(raw_text), lines 71-83: first call_ai()
ParseIdea ==
    /\ apc = NotAsking
    /\ exc' = "none"
    /\ intent' = Unbound
    /\ apc' = Asking("parse_idea", 1, FALSE)
    /\ requests' = 1
    /\ sends' = 1
    /\ fresh' = NewManagerData
    /\ UNCHANGED <<memFile, bakFile, data, idxVars, wrVars, runVars, gotIndex, pkg>>

\* the provider gets a rate-limit error, waits and sends the request again
RateLimited ==
    /\ apc # NotAsking
    /\ sends < MaxSends
    /\ sends' = sends + 1
    /\ UNCHANGED <<memVars, idxVars, wrVars, runVars, gotIndex, pkg, apc, requests, intent>>

\* call_ai() returns a JSON object: from_dict(data) is returned
Parsed ==
    /\ apc # NotAsking
    /\ \E a \in AnalysisInputs :
          intent' = IF apc.fn = "analyze_change" THEN a ELSE [parsed_idea |-> TRUE]
    /\ apc' = NotAsking
    /\ exc' = "none"
    /\ fresh' = NewManagerData
    /\ UNCHANGED <<memFile, bakFile, data, idxVars, wrVars, runVars, gotIndex, pkg, requests, sends>>

\* call_ai() returns None: the response was not JSON, or was JSON null
Unparsable ==
    /\ apc # NotAsking
    /\ IF on_none(apc.attempt) = "retry"
       THEN /\ apc' = Asking(apc.fn, apc.attempt + 1, TRUE)
            /\ requests' = requests + 1
            /\ sends' = 1
            /\ exc' = "none"
       ELSE /\ apc' = NotAsking
            /\ exc' = "ValueError"
            /\ UNCHANGED <<requests, sends>>
    /\ fresh' = NewManagerData
    /\ UNCHANGED <<memFile, bakFile, data, idxVars, wrVars, runVars, gotIndex, pkg, intent>>

\* call_ai() returns JSON that is not an object: ChangeAnalysis.from_dict calls
\* data.get on it
NotAnObject ==
    /\ apc # NotAsking
    /\ apc.fn = "analyze_change"
    /\ apc' = NotAsking
    /\ exc' = "AttributeError"
    /\ fresh' = NewManagerData
    /\ UNCHANGED <<memFile, bakFile, data, idxVars, wrVars, runVars, gotIndex, pkg, requests, sends,
                   intent>>

\* the provider raises an error that is not a rate limit
ApiError ==
    /\ apc # NotAsking
    /\ apc' = NotAsking
    /\ exc' = "APIError"
    /\ fresh' = NewManagerData
    /\ UNCHANGED <<memFile, bakFile, data, idxVars, wrVars, runVars, gotIndex, pkg, requests, sends,
                   intent>>

NextAsk ==
    \/ AnalyzeChange
    \/ ParseIdea
    \/ RateLimited
    \/ Parsed
    \/ Unparsable
    \/ NotAnObject
    \/ ApiError
    \/ CtxIndex
    \/ WriteSource
    \/ RemoveSource
    \/ CorruptIndex

SpecAsk == InitCtx /\ [][NextAsk]_vars

----------------------------------------------------------------------------
(* Properties of the memory store *)

HoldsInvalidJson(file) == file.kind \in {"text", "partial", "bytes"}

EmptyRecord(v) ==
    /\ IsDict(v)
    /\ {"modules", "decisions", "change_history"} \subseteq DOMAIN v.items
    /\ v.items["modules"] = EmptyDict
    /\ v.items["decisions"] = << >>
    /\ v.items["change_history"] = << >>

\* every accessor and mutator of the manager returns normally on record v
WellFormed(v) ==
    /\ \A name \in ModuleNames : get_module(v, name).exc = "none"
    /\ get_decisions_for_modules(v, <<"auth">>).exc = "none"
    /\ \A m \in ModuleInputs :
           set_module(v, m.name, m.status, m.files, "", << >>).exc = "none"
    /\ \A d \in DecisionInputs :
           add_decision(v, d.decision, d.reason, d.affects, NowStamp).exc = "none"
    /\ \A c \in ChangeInputs :
           add_change(v, c.description, c.files_changed, c.tokens_used,
                      c.tokens_saved, NowStamp).exc = "none"
    /\ save(v, Absent, NowStamp).exc = "none"

PersistedEq(a, b) ==
    /\ Modules(a) = Modules(b)
    /\ Decisions(a) = Decisions(b)
    /\ ChangeHistory(a) = ChangeHistory(b)

\* C2: when memory.json exists and holds invalid JSON, load() returns a default
\* record, memory.json.bak holds the original content and the content is no
\* longer at memory.json.
C2_CorruptRecovery ==
    [][(HoldsInvalidJson(memFile) /\ Load) =>
          (/\ exc' = "none"
           /\ EmptyRecord(data')
           /\ bakFile' = memFile
           /\ memFile' # memFile)]_vars

\* C3: whatever memory.json holds, load() does not raise and leaves a record on
\* which get_module, get_decisions_for_modules, set_module, add_decision,
\* add_change and save all return normally.
C3_LoadTotal ==
    [][Load => (exc' = "none" /\ WellFormed(data'))]_vars

\* C4: with memory.json absent, load() returns a default record without raising
\* and without creating memory.json (or a backup).
C4_AbsentLoad ==
    [][(memFile.kind = "absent" /\ (Load \/ FreshLoad)) =>
          (/\ exc' = "none"
           /\ Load => EmptyRecord(data')
           /\ FreshLoad => EmptyRecord(fresh')
           /\ memFile'.kind = "absent"
           /\ bakFile' = bakFile)]_vars

C4_Witness ==
    /\ memFile.kind = "absent"
    /\ bakFile.kind = "absent"
    /\ EmptyRecord(data)
    /\ exc = "none"

C6_AppendOnly ==
    [][\A c \in ChangeInputs :
          (AddChangeOf(c) /\ exc' = "none") =>
              LET old == ChangeHistory(data)
                  new == ChangeHistory(data')
              IN /\ Len(new) = Len(old) + 1
                 /\ SubSeq(new, 1, Len(old)) = old
                 /\ new[Len(new)].description = c.description
                 /\ new[Len(new)].files_changed = c.files_changed
                 /\ new[Len(new)].tokens_used = c.tokens_used
                 /\ new[Len(new)].tokens_saved = c.tokens_saved]_vars

C6_Witness ==
    /\ Len(ChangeHistory(data)) = 2
    /\ ChangeHistory(data)[1].tokens_saved = 5000
    /\ ChangeHistory(data)[2].tokens_saved = 0
    /\ exc = "none"

\* the decisions of the record persisted in memory.json
PersistedDecisions(file) == IF file.kind = "json" THEN Decisions(file.value) ELSE << >>

----------------------------------------------------------------------------
(* Properties of the index *)

\* the directories a path lies beneath
DirsOf(path) == {path[i] : i \in 1..(Len(path) - 1)}

\* C8: in every persisted index, total_files is the number of entries of files
\* and total_tokens_if_full_read is the sum of their token_count.
C8_Aggregates ==
    idxFile.kind = "json" =>
        /\ idxFile.value.total_files = Cardinality(DOMAIN idxFile.value.files)
        /\ idxFile.value.total_tokens_if_full_read =
               SumTokens(idxFile.value.files, DOMAIN idxFile.value.files)

\* a full build followed by a partial re-index: an entry of the build and an
\* entry the re-index added
C8_Witness ==
    /\ idxFile.kind = "json"
    /\ P_main \in DOMAIN idxFile.value.files
    /\ "module" \in DOMAIN idxFile.value.files[P_main]
    /\ P_logo \in DOMAIN idxFile.value.files
    /\ idxFile.value.total_tokens_if_full_read = 4

\* C9: in every persisted index, no entry of files lies beneath a directory
\* whose name is in the ignore set.
C9_IgnoredDirs ==
    idxFile.kind = "json" =>
        \A path \in DOMAIN idxFile.value.files : DirsOf(path) \cap IGNORED_DIRS = {}

\* C10: a second index() of the same tree, which now holds the index file the
\* first one wrote, yields the same total_files and total_tokens_if_full_read.
C10_Idempotent ==
    LET first == index(fs, idxFile, memFile, bakFile)
        second == index(fs, write_index(first), memFile, bakFile)
    IN /\ second.total_files = first.total_files
       /\ second.total_tokens_if_full_read = first.total_tokens_if_full_read

\* the persisted index is a full build of the present tree with two files
C10_Witness ==
    /\ idxFile.kind = "json"
    /\ idxFile.value = index(fs, idxFile, memFile, bakFile)
    /\ idxFile.value.total_files = 2
    /\ Exists(fs[P_dep])

----------------------------------------------------------------------------
(* Properties of the write *)

\* C1: at every step of a save() or a _write_index(), a crash included, the
\* target file keeps its previous content or takes the complete new document,
\* and what another process reads is never a part of a document.
C1_AtomicWrite ==
    [][/\ memFile' \in {memFile, IF wTarget = "memory" THEN wDoc ELSE memFile}
       /\ idxFile' \in {idxFile, IF wTarget = "index" THEN wDoc ELSE idxFile}
       /\ memFile'.kind \in {"absent", "json"}
       /\ idxFile'.kind \in {"absent", "json"}
       /\ seen'.kind \in {"absent", "json"}]_vars

\* a save() has written half of a new document while memory.json, which another
\* process has just read, still holds the previous one
C1_Witness ==
    /\ wpc = "tmp"
    /\ wTarget = "memory"
    /\ tmpFile.kind = "partial"
    /\ tmpFile.n = 1
    /\ memFile.kind = "json"
    /\ memFile # wDoc
    /\ seen = memFile

----------------------------------------------------------------------------
(* Properties of FileIndexer.load() and of the partial re-index *)

\* C11: FileIndexer.load() never raises; when the index file is absent or cannot
\* be parsed it returns the empty index (no files, no modules, both totals 0);
\* it leaves the disk as it was.
C11_IndexerLoadTotal ==
    [][IndexerLoad =>
          /\ exc' = "none"
          /\ (idxFile.kind # "json") => (gotIndex' = EmptyIndex)
          /\ idxFile' = idxFile
          /\ fs' = fs
          /\ memFile' = memFile
          /\ bakFile' = bakFile]_vars

\* the fields of a record other than its token count are those of the old one
SameButTokens(old_record, new_record) ==
    /\ DOMAIN new_record = DOMAIN old_record \cup {"token_count"}
    /\ \A k \in DOMAIN old_record \ {"token_count"} : new_record[k] = old_record[k]

\* the records of the paths that are not on the list stay
Unlisted(old, new, file_paths) ==
    /\ DOMAIN new \subseteq DOMAIN old \cup Range(file_paths)
    /\ \A p \in DOMAIN old \ Range(file_paths) : p \in DOMAIN new /\ new[p] = old[p]

\* C12 as stated: after _reindex_files(paths), every listed path that exists has
\* a record with the token count of its present content and its other fields as
\* before; every listed path that does not exist has no record; the records of
\* the other paths are unchanged.
C12_PartialReindex ==
    [][\A file_paths \in ChangeLists :
          ReindexFilesOf(file_paths) =>
              LET old == indexer_load(idxFile).files
                  new == idxFile'.value.files
              IN /\ \A p \in Range(file_paths) :
                        IF Exists(fs[p])
                        THEN /\ p \in DOMAIN new
                             /\ new[p]["token_count"] = count_tokens(fs[p])
                             /\ SameButTokens(GetItem(old, p, EmptyDict), new[p])
                        ELSE p \notin DOMAIN new
                 /\ Unlisted(old, new, file_paths)]_vars

\* C12: as above for the listed paths that exist and can be read; a listed path
\* whose read fails keeps the record it had, or none.
C12_PartialReindexReadable ==
    [][\A file_paths \in ChangeLists :
          ReindexFilesOf(file_paths) =>
              LET old == indexer_load(idxFile).files
                  new == idxFile'.value.files
              IN /\ \A p \in Range(file_paths) :
                        CASE ~Exists(fs[p]) -> p \notin DOMAIN new
                          [] fs[p].kind = "unreadable" ->
                                /\ (p \in DOMAIN new) = (p \in DOMAIN old)
                                /\ p \in DOMAIN old => new[p] = old[p]
                          [] OTHER ->
                                /\ p \in DOMAIN new
                                /\ new[p]["token_count"] = count_tokens(fs[p])
                                /\ SameButTokens(GetItem(old, p, EmptyDict), new[p])
                 /\ Unlisted(old, new, file_paths)]_vars

\* a partial re-index has refreshed the record index() made for main.py, added
\* one for a path listed for the first time, and dropped login.py's, now deleted
C12_Witness ==
    /\ idxFile.kind = "json"
    /\ P_main \in DOMAIN idxFile.value.files
    /\ "exports" \in DOMAIN idxFile.value.files[P_main]
    /\ idxFile.value.files[P_main]["token_count"] = count_tokens(SrcBig)
    /\ idxFile.value.files[P_main]["exports"] = SrcSmall.exports
    /\ P_dep \in DOMAIN idxFile.value.files
    /\ P_login \notin DOMAIN idxFile.value.files
    /\ P_login \in Range(GetItem(idxFile.value.modules, "auth", << >>))

----------------------------------------------------------------------------
(* Properties of the classifier retry *)

\* C13: analyze_change and parse_idea start with one classification request
\* without the stricter instruction; a second request is issued if and only if
\* the first came back unparsable, and it carries the stricter instruction; a
\* second unparsable result raises ValueError with no further request; a parsed
\* first result returns after exactly one request; no run issues more than two.
C13_BoundedRetry ==
    [][/\ requests' <= 2
       /\ (AnalyzeChange \/ ParseIdea) =>
              (apc' # NotAsking => (requests' = 1 /\ ~apc'.strict))
       /\ (requests' = requests + 1 /\ apc # NotAsking) <=> (Unparsable /\ apc.attempt = 1)
       /\ (Unparsable /\ apc.attempt = 1) =>
              (requests' = 2 /\ apc'.strict /\ apc'.fn = apc.fn /\ exc' = "none")
       /\ (Unparsable /\ apc.attempt = 2) =>
              (exc' = "ValueError" /\ apc' = NotAsking /\ requests' = 2)
       /\ (Parsed /\ apc.attempt = 1) =>
              (requests' = 1 /\ apc' = NotAsking /\ exc' = "none")]_vars

\* a run that was rate-limited on its retry and failed twice
C13_Witness ==
    /\ exc = "ValueError"
    /\ apc = NotAsking
    /\ requests = 2
    /\ sends > 1

----------------------------------------------------------------------------
(* Properties of the context package.  While a package is bound the project *)
(* is as build_context() found it, and data is the record it loaded.        *)

Built == pkg # Unbound

AffectedFiles == Range(pkg.analysis.affected_files)

IndexedFiles == indexer_load(idxFile).files

\* idx_path is the first key of the index that contains the import target
IsFirstMatch(idx_path, imp) ==
    LET keys == KeysInOrder(IndexedFiles)
    IN \E i \in 1..Len(keys) :
          /\ keys[i] = idx_path
          /\ ImportMatches(imp, idx_path)
          /\ \A j \in 1..(i - 1) : ~ImportMatches(imp, keys[j])

\* the working set: the affected files and the first match of each import the
\* index records for an affected file
WorkingSet ==
    AffectedFiles \cup
    {p \in DOMAIN IndexedFiles :
        \E g \in AffectedFiles \cap DOMAIN IndexedFiles :
            \E imp \in Range(GetItem(IndexedFiles[g], "imports", << >>)) :
                IsFirstMatch(p, imp)}

OnDisk(p) == p \in DOMAIN fs /\ fs[p].kind = "src"

\* C14: every file of the package is an affected file or the first index path
\* matching an import the index records for an affected file, and every such
\* file that can be read is in the package: a file added for an import is not
\* expanded in turn.
C14_SingleHop ==
    Built => DOMAIN pkg.files = {p \in WorkingSet : OnDisk(p)}

\* main.py is affected and imports auth.login, which imports api.users: login.py
\* is in the package and users.py, indexed and on disk, is not
C14_Witness ==
    /\ Built
    /\ AffectedFiles = {P_main}
    /\ P_users \in DOMAIN IndexedFiles
    /\ OnDisk(P_users)
    /\ "api.users" \in Range(IndexedFiles[P_login]["imports"])
    /\ DOMAIN pkg.files = {P_main, P_login}

\* C15: total_tokens of a package is the sum of the token counts of the contents
\* it stores, compressed or not.
C15_TotalTokens ==
    Built => pkg.total_tokens = SumContentTokens(pkg.files, DOMAIN pkg.files)

\* the tokens of the files of the package as they are on disk
RawTotal == SumContentTokens([p \in DOMAIN pkg.files |-> fs[p]], DOMAIN pkg.files)

\* a compressed package: its total is that of the compressed contents
C15_Witness ==
    /\ Built
    /\ RawTotal > CONTEXT_TOKEN_THRESHOLD
    /\ pkg.total_tokens < RawTotal

\* C16: the contents of a package are those on disk when their total is at most
\* the threshold, and otherwise each of them after exactly one compression pass.
C16_CompressOnce ==
    Built =>
        \A p \in DOMAIN pkg.files :
            IF RawTotal > CONTEXT_TOKEN_THRESHOLD
            THEN pkg.files[p] = [fs[p] EXCEPT !.body = CompressLines(fs[p].body)]
            ELSE pkg.files[p] = fs[p]

\* one pass was applied and left the package over the threshold, with a
\* docstring that a second pass would strip
C16_Witness ==
    /\ Built
    /\ P_login \in DOMAIN pkg.files
    /\ pkg.files[P_login].body # fs[P_login].body
    /\ "comment" \in Range(pkg.files[P_login].body)
    /\ pkg.total_tokens > CONTEXT_TOKEN_THRESHOLD

\* the total is exactly the threshold and the contents are verbatim
C16_AtThreshold ==
    /\ Built
    /\ RawTotal = CONTEXT_TOKEN_THRESHOLD
    /\ pkg.files = [p \in DOMAIN pkg.files |-> fs[p]]

\* C17: build_context does not raise for a working-set file that is missing or
\* cannot be read: the keys of the package are exactly the working-set paths
\* whose file exists and can be read, and its total counts those files only.
C17_MissingSkipped ==
    [][\A analysis \in AnalysisInputs :
          (BuildContextOf(analysis) /\ indexer_load_exc(idxFile) = "none") =>
              /\ exc' = "none"
              /\ DOMAIN pkg'.files =
                     {p \in files_to_load(Range(analysis.affected_files),
                                          indexer_load(idxFile).files) : OnDisk(p)}
              /\ pkg'.total_tokens =
                     SumContentTokens(pkg'.files, {p \in DOMAIN pkg'.files : OnDisk(p)})]_vars

\* a package built for login.py, read, and a file that is not on disk
C17_Witness ==
    /\ Built
    /\ P_ghost \in AffectedFiles
    /\ ~OnDisk(P_ghost)
    /\ DOMAIN pkg.files = {P_login}
    /\ pkg.total_tokens = count_tokens(fs[P_login])

IndexedModules == indexer_load(idxFile).modules

\* C18: module_summaries has one entry per affected module and no other: one
\* line (path, purpose, token count) per file the index lists for the module,
\* in the order of the list, or the placeholder when it lists none.
C18_ModuleSummaries ==
    Built =>
        /\ DOMAIN pkg.module_summaries = Range(pkg.analysis.affected_modules)
        /\ \A m \in DOMAIN pkg.module_summaries :
              LET listed == GetItem(IndexedModules, m, << >>)
                  lines == pkg.module_summaries[m]
              IN IF listed = << >>
                 THEN lines = <<[placeholder |-> "no files"]>>
                 ELSE /\ Len(lines) = Len(listed)
                      /\ \A i \in 1..Len(listed) :
                            /\ lines[i].path = listed[i]
                            /\ lines[i].purpose = IndexedFiles[listed[i]]["purpose"]
                            /\ lines[i].token_count = IndexedFiles[listed[i]]["token_count"]

\* the intent names auth, which the index lists with login.py, and billing,
\* which it does not know; the index knows other modules too
C18_Witness ==
    /\ Built
    /\ pkg.analysis.affected_modules = <<"auth", "billing">>
    /\ "root" \in DOMAIN IndexedModules
    /\ GetItem(IndexedModules, "auth", << >>) = <<P_login>>
    /\ Len(pkg.module_summaries["auth"]) = 1
    /\ pkg.module_summaries["auth"][1].path = P_login
    /\ pkg.module_summaries["billing"] = NoFiles

\* the lists of module names the callers pass
NameLists == {a.affected_modules : a \in AnalysisInputs} \cup {<<"auth">>, <<"api">>}

\* the decisions of a record that affect one of the modules named, in order
Affecting(record, names) ==
    LET Shares(d) == \E n \in Range(names) : n \in Range(d.affects)
    IN SelectSeq(Decisions(record), Shares)

\* C19: get_decisions_for_modules(names) returns the decisions of the record
\* whose affects list shares a name with names, in recorded order, none for no
\* names; the decisions of a package are those of the loaded record for the
\* affected modules of the intent.
C19_DecisionsForModules ==
    /\ \A names \in NameLists :
          /\ get_decisions_for_modules(data, names).exc = "none"
          /\ get_decisions_for_modules(data, names).value = Affecting(data, names)
    /\ get_decisions_for_modules(data, << >>).value = << >>
    /\ Built => pkg.decisions = Affecting(data, pkg.analysis.affected_modules)

\* a package with the one decision, of two recorded, that affects its module
C19_Witness ==
    /\ Built
    /\ Len(Decisions(data)) = 2
    /\ Len(pkg.decisions) = 1
    /\ pkg.decisions[1] = Decisions(data)[2]

IsHeading(part) == "heading" \in DOMAIN part

\* the headings of the text, in order
Headings(text) == SelectSeq(text, IsHeading)

\* C20: the text of a package has the headings of its non-empty collections
\* and no other, in the order modules, files, decisions, each followed by one
\* part per item; with the three collections empty the text is empty.
C20_InjectionText ==
    Built =>
        LET text == to_injection_text(pkg)
            nm == Cardinality(DOMAIN pkg.module_summaries)
            nf == Cardinality(DOMAIN pkg.files)
            nd == Len(pkg.decisions)
        IN /\ Headings(text) =
                  (IF nm > 0 THEN <<Heading("## Relevant Modules")>> ELSE << >>)
                  \o (IF nf > 0 THEN <<Heading("## Relevant Files")>> ELSE << >>)
                  \o (IF nd > 0 THEN <<Heading("## Relevant Decisions")>> ELSE << >>)
           /\ Len(text) = Len(Headings(text)) + nm + nf + nd
           /\ (nm = 0 /\ nf = 0 /\ nd = 0) => text = << >>

\* a package with module summaries and decisions and no file: two sections
C20_Witness ==
    /\ Built
    /\ DOMAIN pkg.files = {}
    /\ pkg.decisions # << >>
    /\ Headings(to_injection_text(pkg)) =
           <<Heading("## Relevant Modules"), Heading("## Relevant Decisions")>>

\* the package of an intent that names nothing: the empty text
C20_EmptyText ==
    /\ Built
    /\ pkg.analysis.affected_modules = << >>
    /\ to_injection_text(pkg) = << >>

----------------------------------------------------------------------------
(* Full builds over a layout with a file directly in src/ *)

\* the developer writes or deletes a file of the layout
LayFile ==
    \E p \in LayoutPaths, c \in {SrcSmall, Unreadable, Absent} :
        /\ fs' = [fs EXCEPT ![p] = c]
        /\ UNCHANGED <<memVars, idxFile, wrVars, ctxVars, runVars>>

InitBuild ==
    /\ memFile = Absent
    /\ bakFile = Absent
    /\ data = NewManagerData
    /\ fresh = NewManagerData
    /\ exc = "none"
    /\ fs = [p \in LayoutPaths |-> Absent]
    /\ idxFile = Absent
    /\ WriterIdle
    /\ CtxIdle
    /\ RunIdle

NextBuild ==
    \/ LayFile
    \/ Index

SpecBuild == InitBuild /\ [][NextBuild]_vars

\* the number of times x occurs in seq
CountIn(seq, x) == Cardinality({i \in DOMAIN seq : seq[i] = x})

\* the lists of the grouping that name path p
ListsNaming(idx, p) == {m \in DOMAIN idx.modules : CountIn(idx.modules[m], p) > 0}

\* every file of the index is listed once, and under the module of its record
GroupedOnce(idx) ==
    \A p \in DOMAIN idx.files :
        /\ ListsNaming(idx, p) = {idx.files[p].module}
        /\ CountIn(idx.modules[idx.files[p].module], p) = 1

\* C21, as the spec states it: in every index a full build has written, a root
\* file has module "root", a path under src/ has its second segment as module,
\* any other path its first segment, and every file is listed once in the
\* grouping, under the module of its record.
C21_SkipsSrc ==
    idxFile.kind = "json" =>
        /\ \A p \in DOMAIN idxFile.value.files :
              idxFile.value.files[p].module =
                  CASE Len(p) = 1 -> "root"
                    [] Len(p) > 1 /\ p[1] = "src" -> p[2]
                    [] OTHER -> p[1]
        /\ GroupedOnce(idxFile.value)

\* C21: in every index a full build has written, a root file has module
\* "root", a file in a directory below src/ has that directory as module, a
\* file directly in src/ has module "src", any other path has its first
\* segment, and every file is listed once in the grouping, under the module of
\* its record.
C21_ModuleInference ==
    idxFile.kind = "json" =>
        /\ \A p \in DOMAIN idxFile.value.files :
              idxFile.value.files[p].module =
                  CASE Len(p) = 1 -> "root"
                    [] Len(p) = 2 /\ p[1] = "src" -> "src"
                    [] Len(p) > 2 /\ p[1] = "src" -> p[2]
                    [] OTHER -> p[1]
        /\ GroupedOnce(idxFile.value)

\* a build has indexed a root file, a file directly in src/, two files in
\* directories below src/ and a file in another directory
C21_Witness ==
    /\ idxFile.kind = "json"
    /\ LayoutPaths = DOMAIN idxFile.value.files
    /\ idxFile.value.files[P_app].module = "src"
    /\ idxFile.value.modules["src"] = <<P_app>>
    /\ idxFile.value.modules["auth"] = <<P_login>>
    /\ idxFile.value.modules["docs"] = <<P_guide>>

----------------------------------------------------------------------------
(* estimate_cost: core/token_counter.py, with the table of core/constants.py *)
(* Prices are floats in USD per million tokens, so a token costs its price  *)
(* in millionths of a dollar.  The model holds a price as the integer       *)
(* price * PriceScale and a cost as a whole number of millionths.           *)

PriceScale == 10000

\* the token counts of the calls
MaxInputTokens == 5
MaxOutputTokens == 2

\* the table as the module holds it once loaded: the entries keyed by GEMINI_PRO
\* and GEMINI_FLASH replace the two literal gemini entries before them
COSTS_PER_MILLION ==
    [m \in {"claude-sonnet-4-5", "claude-haiku-4-5-20251001", "gemini-1.5-pro",
            "gemini-1.5-flash"} |->
        CASE m = "claude-sonnet-4-5" ->
                 [input |-> 30000, output |-> 150000, cache_read |-> 3000]
          [] m = "claude-haiku-4-5-20251001" ->
                 [input |-> 10000, output |-> 50000, cache_read |-> 1000]
          [] m = "gemini-1.5-pro" ->
                 [input |-> 12500, output |-> 100000, cache_read |-> 3150]
          [] m = "gemini-1.5-flash" ->
                 [input |-> 1500, output |-> 6000, cache_read |-> 375]]

ModelInputs == DOMAIN COSTS_PER_MILLION \cup {"unknown-model"}

\* a rounding that drops the fraction
round_6_down(scaled) == {scaled \div PriceScale}

\* round(cost, 6): the nearest whole number of millionths.  The float that
\* stands for a cost halfway between two of them lies on one side or the
\* other, so a tie goes either way.
round_6(scaled) ==
    LET q == scaled \div PriceScale
        r == scaled % PriceScale
    IN IF 2 * r < PriceScale THEN {q}
       ELSE IF 2 * r > PriceScale THEN {q + 1}
       ELSE {q, q + 1}

\* the cost before rounding, in millionths times PriceScale
linear_cost(input_tokens, output_tokens, model, cached_input_tokens) ==
    LET costs == COSTS_PER_MILLION[model]
    IN input_tokens * costs.input + output_tokens * costs.output
       + cached_input_tokens * costs.cache_read

\* estimate_cost(input_tokens, output_tokens, model, cached_input_tokens=...):
\* the values it may return, in millionths of a dollar
estimate_cost(input_tokens, output_tokens, model, cached_input_tokens) ==
    IF model \notin DOMAIN COSTS_PER_MILLION
    THEN {0}
    ELSE round_6(linear_cost(input_tokens, output_tokens, model, cached_input_tokens))

\* three calls for one model: a + b input tokens with o output tokens, a with
\* o, and b with none
EstimateCost ==
    \E a \in 0..MaxInputTokens, b \in 0..MaxInputTokens, o \in 0..MaxOutputTokens :
      \E m \in ModelInputs :
        \E whole \in estimate_cost(a + b, o, m, 0) :
          \E first \in estimate_cost(a, o, m, 0) :
            \E rest \in estimate_cost(b, 0, m, 0) :
                /\ cost' = [a |-> a, b |-> b, o |-> o, model |-> m,
                            whole |-> whole, first |-> first, rest |-> rest]
                /\ UNCHANGED <<memVars, idxVars, wrVars, ctxVars, claudeMd, geminiMd,
                               pc, rpc, waiting>>

NextCost == EstimateCost

SpecCost == Init /\ [][NextCost]_vars

Priced(m) == m \in DOMAIN COSTS_PER_MILLION

Dist(x, y) == IF x >= y THEN x - y ELSE y - x

----------------------------------------------------------------------------
(* ClaudeBuilder.inject_context and GeminiBuilder.inject_context            *)
(* (builders/claude_builder.py, builders/gemini_builder.py).  The text of a  *)
(* config file is the sequence of its pieces: the two markers, line breaks   *)
(* and runs of other text.                                                   *)

MARKER_START == [marker |-> "<!-- PREFLIGHT CONTEXT START -->"]

MARKER_END == [marker |-> "<!-- PREFLIGHT CONTEXT END -->"]

NL == [space |-> "\n"]

Words(t) == [words |-> t]

\* a config file that exists
ConfigFile(content) == [kind |-> "md", content |-> content]

\* str.find: the place of the first occurrence of a piece, 0 if there is none
Find(content, piece) ==
    IF \E i \in DOMAIN content : content[i] = piece
    THEN CHOOSE i \in DOMAIN content :
             /\ content[i] = piece
             /\ \A j \in 1..(i - 1) : content[j] # piece
    ELSE 0

\* str.rstrip()
RECURSIVE rstrip(_)
rstrip(content) ==
    IF content # << >> /\ content[Len(content)] = NL
    THEN rstrip(SubSeq(content, 1, Len(content) - 1))
    ELSE content

\* the section inject_context() appends
Injection(context_text) ==
    <<NL, NL, MARKER_START, NL,
      Heading("# Current Change Context (Auto-injected by Preflight)"), NL, NL>>
    \o context_text \o <<NL, MARKER_END, NL>>

\* inject_context(context_text): the file it leaves
inject_context(file, context_text) ==
    IF ~Exists(file)
    THEN file
    ELSE LET content == file.content
             start == Find(content, MARKER_START)
             after_idx == Find(content, MARKER_END)
             before == SubSeq(content, 1, start - 1)
             after == IF after_idx > 0
                      THEN SubSeq(content, after_idx + 1, Len(content))
                      ELSE << >>
             removed == IF start > 0 THEN before \o after ELSE content
         IN ConfigFile(rstrip(removed) \o Injection(context_text))

----------------------------------------------------------------------------
(* run_change (modes/change_mode.py), in the steps its calls of the         *)
(* classifier cut it into                                                    *)

\* what the developer answers to the prompt
ChangeDescriptions == {"", "add login"}

\* PREFLIGHT_AI_TARGET
AiTargets == {"claude", "gemini", "both"}

\* the files a run may write
Persisted == <<memFile, bakFile, idxFile, claudeMd, geminiMd>>

\* .preflight/ exists: the model knows the directory by the files in it
preflight_dir_exists(memory_file, bak_file, index_file) ==
    Exists(memory_file) \/ Exists(bak_file) \/ Exists(index_file)

\* a start whose ContextFinder loads the memory and persists the default record
run_change_begin_creating_memory(description, memory_file, bak_file, index_file) ==
    LET left(stage, e) ==
            [stage |-> stage, exc |-> e,
             memFile |-> load_creates_file(memory_file, bak_file, NewManagerData,
                                           NowStamp).memFile,
             bakFile |-> bak_file, idxFile |-> index_file]
    IN IF ~preflight_dir_exists(memory_file, bak_file, index_file)
       THEN [stage |-> "no_preflight", exc |-> "none", memFile |-> memory_file,
             bakFile |-> bak_file, idxFile |-> index_file]
       ELSE IF description = ""
       THEN left("no_description", "none")
       ELSE IF indexer_load_exc(index_file) # "none"
       THEN left("failed", indexer_load_exc(index_file))
       ELSE left("analyzing", "none")

\* lines 49-80: the checks, ContextFinder(project_root) and the load of the
\* index in analyze_change, up to its first call_ai()
run_change_begin(description, memory_file, bak_file, index_file) ==
    LET left(stage, e) ==
            [stage |-> stage, exc |-> e, memFile |-> memory_file, bakFile |-> bak_file,
             idxFile |-> index_file]
    IN IF ~preflight_dir_exists(memory_file, bak_file, index_file)
       THEN left("no_preflight", "none")
       ELSE IF description = ""
       THEN left("no_description", "none")
       ELSE IF indexer_load_exc(index_file) # "none"
       THEN left("failed", indexer_load_exc(index_file))
       ELSE left("analyzing", "none")

\* lines 83-129: build_context, the load of the index, the injections and
\* update_after_change
run_change_end(description, analysis, ai_target, tree, memory_file, bak_file, index_file, claude_md, gemini_md) ==
    LET built == build_context(analysis, tree, index_file, memory_file, bak_file)
        full_tokens == indexer_load(index_file).total_tokens_if_full_read
        injection_text == to_injection_text(built.pkg)
        updated == update_after_change(description, analysis, built.pkg.total_tokens,
                                       full_tokens, built.memFile, built.bakFile,
                                       index_file, tree)
    IN IF built.exc # "none"
       THEN [stage |-> "failed", exc |-> built.exc, memFile |-> built.memFile,
             bakFile |-> built.bakFile, idxFile |-> index_file,
             claudeMd |-> claude_md, geminiMd |-> gemini_md]
       ELSE [stage |-> IF updated.exc = "none" THEN "done" ELSE "failed",
             exc |-> updated.exc,
             memFile |-> updated.memFile,
             bakFile |-> updated.bakFile,
             idxFile |-> updated.idxFile,
             claudeMd |-> IF ai_target \in {"claude", "both"}
                          THEN inject_context(claude_md, injection_text)
                          ELSE claude_md,
             geminiMd |-> IF ai_target \in {"gemini", "both"}
                          THEN inject_context(gemini_md, injection_text)
                          ELSE gemini_md]

NoRunUnderWay == rpc.stage # "analyzing"

\* run_change() is called and runs up to its first call_ai()
RunChange ==
    \E description \in ChangeDescriptions :
        LET r == run_change_begin(description, memFile, bakFile, idxFile)
        IN /\ NoRunUnderWay
           /\ apc = NotAsking
           /\ Len(ChangeHistory(load(memFile, bakFile, NewManagerData, NowStamp).data))
                  < MaxChanges
           /\ rpc' = [stage |-> r.stage, description |-> description,
                      before |-> Persisted]
           /\ memFile' = r.memFile
           /\ bakFile' = r.bakFile
           /\ idxFile' = r.idxFile
           /\ exc' = r.exc
           /\ intent' = Unbound
           /\ IF r.stage = "analyzing"
              THEN /\ apc' = Asking("analyze_change", 1, FALSE)
                   /\ requests' = 1
                   /\ sends' = 1
              ELSE UNCHANGED <<apc, requests, sends>>
           /\ UNCHANGED <<data, fresh, fs, wrVars, gotIndex, pkg, cost, claudeMd,
                          geminiMd, pc, waiting>>

\* analyze_change() has raised: the exception leaves run_change()
RunAbandon ==
    /\ rpc.stage = "analyzing"
    /\ apc = NotAsking
    /\ exc # "none"
    /\ rpc' = [rpc EXCEPT !.stage = "failed"]
    /\ UNCHANGED <<memVars, idxVars, wrVars, ctxVars, cost, claudeMd, geminiMd, pc, waiting>>

\* analyze_change() has returned: the rest of run_change()
RunProceed ==
    \E ai_target \in AiTargets :
        LET r == run_change_end(rpc.description, intent, ai_target, fs, memFile, bakFile,
                                idxFile, claudeMd, geminiMd)
        IN /\ rpc.stage = "analyzing"
           /\ apc = NotAsking
           /\ exc = "none"
           /\ rpc' = [rpc EXCEPT !.stage = r.stage]
           /\ exc' = r.exc
           /\ memFile' = r.memFile
           /\ bakFile' = r.bakFile
           /\ idxFile' = r.idxFile
           /\ claudeMd' = r.claudeMd
           /\ geminiMd' = r.geminiMd
           /\ UNCHANGED <<data, fresh, fs, wrVars, ctxVars, cost, pc, waiting>>

\* preflight index, between runs
SetupIndex ==
    /\ NoRunUnderWay
    /\ idxFile' = write_index(index(fs, idxFile, memFile, bakFile))
    /\ UNCHANGED <<memVars, fs, wrVars, ctxVars, cost, claudeMd, geminiMd, pc, rpc, waiting>>

\* the first text of a config file
FirstContent == <<Words("# Rules"), NL>>

\* ClaudeBuilder.build and GeminiBuilder.build write the config files, between
\* runs
BuildConfig ==
    /\ NoRunUnderWay
    /\ claudeMd' = ConfigFile(FirstContent)
    /\ geminiMd' = ConfigFile(FirstContent)
    /\ UNCHANGED <<memVars, idxVars, wrVars, ctxVars, cost, pc, rpc, waiting>>

NextRun ==
    \/ RunChange
    \/ RateLimited
    \/ Parsed
    \/ Unparsable
    \/ NotAnObject
    \/ ApiError
    \/ RunAbandon
    \/ RunProceed
    \/ SetupIndex
    \/ BuildConfig

SpecRun == InitCtx /\ [][NextRun]_vars

\* C23: whenever run_change() stops because .preflight/ is missing, because the
\* description is empty or because analyze_change() raised, the memory file,
\* its backup, the index file and the two config files hold what they held
\* when the run began.
C23_AbandonedPersistsNothing ==
    [][(RunAbandon \/ (RunChange /\ rpc'.stage # "analyzing"))
          => Persisted' = rpc'.before]_vars

\* a run has been abandoned on the ValueError of the second unparsable answer,
\* after an earlier run that injected its context and recorded its change
C23_Witness ==
    /\ rpc.stage = "failed"
    /\ exc = "ValueError"
    /\ requests = 2
    /\ Exists(claudeMd)
    /\ Find(claudeMd.content, MARKER_START) > 0
    /\ memFile.kind = "json"
    /\ Len(ChangeHistory(memFile.value)) = 1
    /\ Persisted = rpc.before

----------------------------------------------------------------------------
(* Two processes that each run load(), add_change(), save() on the same     *)
(* memory file (memory/memory_updater.py, lines 49-67).  Process A holds its *)
(* record in data, process B in fresh.                                       *)

Local(w) == IF w = "A" THEN data ELSE fresh

\* the change each process records
WriterChange(w) ==
    IF w = "A"
    THEN [description |-> "Added login", files_changed |-> <<P_login>>,
          tokens_used |-> 300, tokens_saved |-> 5000]
    ELSE [description |-> "Fixed bug", files_changed |-> <<P_main>>,
          tokens_used |-> 10, tokens_saved |-> 0]

SetLocal(w, value) ==
    /\ data' = IF w = "A" THEN value ELSE data
    /\ fresh' = IF w = "B" THEN value ELSE fresh

\* self._memory.load()
WriterLoad(w) ==
    LET r == load(memFile, bakFile, Local(w), NowStamp)
    IN /\ pc[w].at = "idle"
       /\ Len(pc[w].saved) < MaxChanges
       /\ SetLocal(w, r.data)
       /\ memFile' = r.memFile
       /\ bakFile' = r.bakFile
       /\ exc' = r.exc
       /\ pc' = [pc EXCEPT ![w].at = "loaded"]
       /\ UNCHANGED <<idxVars, wrVars, ctxVars, cost, claudeMd, geminiMd, rpc, waiting>>

\* self._memory.add_change(...)
WriterAdd(w) ==
    LET c == WriterChange(w)
        r == add_change(Local(w), c.description, c.files_changed, c.tokens_used,
                        c.tokens_saved, NowStamp)
    IN /\ pc[w].at = "loaded"
       /\ SetLocal(w, r.data)
       /\ exc' = r.exc
       /\ pc' = [pc EXCEPT ![w].at = "added"]
       /\ UNCHANGED <<memFile, bakFile, idxVars, wrVars, ctxVars, cost, claudeMd,
                      geminiMd, rpc, waiting>>

\* self._memory.save()
WriterSave(w) ==
    LET r == save(Local(w), memFile, NowStamp)
    IN /\ pc[w].at = "added"
       /\ SetLocal(w, r.data)
       /\ memFile' = r.memFile
       /\ exc' = r.exc
       /\ pc' = [pc EXCEPT ![w] = [at |-> "idle",
                                   saved |-> Append(pc[w].saved,
                                                    WriterChange(w).description)]]
       /\ UNCHANGED <<bakFile, idxVars, wrVars, ctxVars, cost, claudeMd, geminiMd, rpc, waiting>>

NextRace ==
    \/ \E w \in Writers : WriterLoad(w)
    \/ \E w \in Writers : WriterAdd(w)
    \/ \E w \in Writers : WriterSave(w)

SpecRace == Init /\ [][NextRace]_vars

\* the descriptions of the persisted change history
PersistedChanges ==
    IF memFile.kind = "json"
    THEN [i \in DOMAIN ChangeHistory(memFile.value) |->
             ChangeHistory(memFile.value)[i].description]
    ELSE << >>

\* C24: while only one of the two processes has written, the persisted
\* change_history holds every change that process saved, in the order of its
\* saves; a process about to save holds the change it just added as the last
\* entry of its record; and the last persisted entry is a change of a process
\* that has saved.
C24_SingleWriterKeepsAll ==
    /\ \A w \in Writers :
          (\A v \in Writers \ {w} : pc[v].saved = << >>) => PersistedChanges = pc[w].saved
    /\ \A w \in Writers :
          pc[w].at = "added" =>
              /\ ChangeHistory(Local(w)) # << >>
              /\ ChangeHistory(Local(w))[Len(ChangeHistory(Local(w)))].description
                     = WriterChange(w).description
    /\ memFile.kind = "json" /\ PersistedChanges # << >> =>
          \E w \in Writers :
              /\ pc[w].saved # << >>
              /\ PersistedChanges[Len(PersistedChanges)] = WriterChange(w).description

\* both processes have saved their change and the persisted history holds only
\* one of the two
C24_Witness ==
    /\ pc["A"].at = "idle" /\ pc["B"].at = "idle"
    /\ pc["A"].saved = <<"Added login">>
    /\ pc["B"].saved = <<"Fixed bug">>
    /\ Len(PersistedChanges) = 1

----------------------------------------------------------------------------
(* What total_tokens of a package counts *)

\* the tokens of everything a package includes
EverythingTokens ==
    SumContentTokens(pkg.files, DOMAIN pkg.files)
    + SummaryTokens(pkg.module_summaries, DOMAIN pkg.module_summaries)
    + Len(pkg.decisions)

\* C25, as the spec states it: total_tokens of a package is the token count of
\* everything it includes: file contents, module summaries and decisions.
C25_TotalOfEverything == Built => pkg.total_tokens = EverythingTokens

\* C25: total_tokens of a package counts its file contents only: it is the
\* token count of everything the package includes less the tokens of its module
\* summaries and of its decisions, so it is below that count whenever the
\* package holds a summary or a decision, and 0 when it holds no file.
C25_TotalOfFilesOnly ==
    Built =>
        /\ pkg.total_tokens
              = EverythingTokens
                - SummaryTokens(pkg.module_summaries, DOMAIN pkg.module_summaries)
                - Len(pkg.decisions)
        /\ (DOMAIN pkg.module_summaries # {} \/ pkg.decisions # << >>)
              => pkg.total_tokens < EverythingTokens
        /\ DOMAIN pkg.files = {} => pkg.total_tokens = 0

\* a package with a file, a module summary and a decision, whose total is that
\* of the file
C25_Witness ==
    /\ Built
    /\ DOMAIN pkg.files # {}
    /\ DOMAIN pkg.module_summaries # {}
    /\ pkg.decisions # << >>
    /\ pkg.total_tokens > 0
    /\ pkg.total_tokens = SumContentTokens(pkg.files, DOMAIN pkg.files)

----------------------------------------------------------------------------
(* The provider under a service that may rate-limit every request           *)
(* (ai/provider.py): on a rate-limit error call() waits and calls itself     *)
(* again, with no count of the retries.  Here sends stands for "MaxSends or  *)
(* more" once it has reached MaxSends.                                       *)

\* the provider gets a rate-limit error and enters _handle_rate_limit()
RateLimitedWait ==
    /\ apc # NotAsking
    /\ ~waiting
    /\ waiting' = TRUE
    /\ UNCHANGED <<memVars, idxVars, wrVars, ctxVars, cost, claudeMd, geminiMd, pc, rpc>>

\* the wait is over: call() calls itself and the request is sent again
Resend ==
    /\ waiting
    /\ waiting' = FALSE
    /\ sends' = IF sends < MaxSends THEN sends + 1 ELSE sends
    /\ UNCHANGED <<memVars, idxVars, wrVars, gotIndex, pkg, apc, requests, intent, cost,
                   claudeMd, geminiMd, pc, rpc>>

\* any other answer to a request that has been sent
OtherAnswer ==
    /\ ~waiting
    /\ \/ Parsed
       \/ Unparsable
       \/ NotAnObject
       \/ ApiError

\* the classifier is called while no call is under way
StormAsk ==
    /\ ~waiting
    /\ \/ AnalyzeChange
       \/ ParseIdea

NextStorm ==
    \/ StormAsk
    \/ RateLimitedWait
    \/ Resend
    \/ OtherAnswer
    \/ CtxIndex
    \/ WriteSource
    \/ RemoveSource
    \/ CorruptIndex

\* every request is answered, every wait ends and the provider goes on
SpecStorm ==
    InitCtx /\ [][NextStorm]_vars /\ WF_vars(RateLimitedWait \/ Resend \/ OtherAnswer)

\* C26: a classification under way comes to an end, whatever the service
\* answers: the provider gives up after finitely many rate-limit answers.
C26_RetryGivesUp == (apc # NotAsking) ~> (apc = NotAsking)

----------------------------------------------------------------------------
(* Change cycles on a record with registered modules *)

\* set_module(name, status=..., files=...)
RegisterInputs ==
    {[name |-> "auth", status |-> "complete", files |-> <<"auth.py">>],
     [name |-> "api", status |-> "not_started", files |-> << >>]}

RegisterModule ==
    \E m \in RegisterInputs :
        /\ data' = set_module(data, m.name, m.status, m.files, "", << >>).data
        /\ exc' = set_module(data, m.name, m.status, m.files, "", << >>).exc
        /\ fresh' = NewManagerData
        /\ UNCHANGED <<memFile, bakFile, idxVars, wrVars, ctxVars, runVars>>

NextUpdate ==
    \/ RegisterModule
    \/ Save
    \/ UpdateAfterChange

SpecUpdate == Init /\ [][NextUpdate]_vars

\* the record update_after_change() loads
LoadedRecord == load(memFile, bakFile, NewManagerData, NowStamp).data

\* C27: a change cycle appends exactly one entry to the persisted change
\* history; its files_changed are the affected files of the analysis, its
\* tokens_used the count passed, its tokens_saved the full count less the count
\* used when that is positive and 0 otherwise: never negative, and summing with
\* tokens_used to the full count whenever the count used is at most the full one.
C27_OneChangeEvent ==
    [][\A c \in CycleInputs :
          (UpdateAfterChangeOf(c) /\ exc' = "none") =>
              LET old == ChangeHistory(LoadedRecord)
                  new == ChangeHistory(memFile'.value)
                  entry == new[Len(new)]
              IN /\ Len(new) = Len(old) + 1
                 /\ SubSeq(new, 1, Len(old)) = old
                 /\ entry.description = c.change_description
                 /\ entry.files_changed = c.analysis.affected_files
                 /\ entry.tokens_used = c.tokens_used
                 /\ entry.tokens_saved >= 0
                 /\ entry.tokens_saved =
                        IF c.full_codebase_tokens > c.tokens_used
                        THEN c.full_codebase_tokens - c.tokens_used
                        ELSE 0
                 /\ c.tokens_used <= c.full_codebase_tokens =>
                        entry.tokens_used + entry.tokens_saved = c.full_codebase_tokens]_vars

\* two cycles are on record: one that used 300 of 5300 tokens and one that used
\* more than the full count
C27_Witness ==
    /\ memFile.kind = "json"
    /\ Len(ChangeHistory(memFile.value)) = 2
    /\ \E i, j \in DOMAIN ChangeHistory(memFile.value) :
          /\ ChangeHistory(memFile.value)[i].tokens_used = 300
          /\ ChangeHistory(memFile.value)[i].tokens_saved = 5000
          /\ ChangeHistory(memFile.value)[j].tokens_used = 10
          /\ ChangeHistory(memFile.value)[j].tokens_saved = 0

\* C28: a change cycle leaves the set of registered modules as it was; each
\* registered module the analysis names gets status "in_progress", its other
\* fields unchanged, and every other module record is unchanged.
C28_ModuleStatusOnly ==
    [][\A c \in CycleInputs :
          (UpdateAfterChangeOf(c) /\ exc' = "none") =>
              LET old == Modules(LoadedRecord)
                  new == Modules(memFile'.value)
              IN /\ DOMAIN new = DOMAIN old
                 /\ \A n \in DOMAIN old :
                       IF n \in Range(c.analysis.affected_modules)
                       THEN /\ new[n]["status"] = "in_progress"
                            /\ DOMAIN new[n] = DOMAIN old[n]
                            /\ \A f \in DOMAIN old[n] \ {"status"} :
                                  new[n][f] = old[n][f]
                       ELSE new[n] = old[n]]_vars

\* a cycle that named auth has run on a record with auth and api registered:
\* auth is in progress with its files, api is as it was registered
C28_Witness ==
    /\ memFile.kind = "json"
    /\ DOMAIN Modules(memFile.value) = {"auth", "api"}
    /\ Modules(memFile.value)["auth"]["status"] = "in_progress"
    /\ Modules(memFile.value)["auth"]["files"] = <<"auth.py">>
    /\ Modules(memFile.value)["api"]["status"] = "not_started"
    /\ Len(ChangeHistory(memFile.value)) = 1
    /\ ChangeHistory(memFile.value)[1].description = "Added login"

----------------------------------------------------------------------------
(* Repeated injections into the config files *)

\* the pieces a config file may reach before a further injection
MaxPieces == 24

\* texts handed to inject_context(): two plain ones, and one with a file that
\* quotes the end marker, as builders/claude_builder.py itself does
ContextTexts ==
    {<<Words("First context")>>,
     <<Words("Second context")>>,
     <<Words("marker_end ="), MARKER_END, Words("quoted")>>}

\* ClaudeBuilder(project_root).inject_context(context_text)
ClaudeInjectOf(context_text) ==
    /\ Exists(claudeMd) => Len(claudeMd.content) <= MaxPieces
    /\ claudeMd' = inject_context(claudeMd, context_text)
    /\ UNCHANGED <<memVars, idxVars, wrVars, ctxVars, cost, geminiMd, pc, rpc, waiting>>

ClaudeInject == \E context_text \in ContextTexts : ClaudeInjectOf(context_text)

\* GeminiBuilder(project_root).inject_context(context_text)
GeminiInjectOf(context_text) ==
    /\ Exists(geminiMd) => Len(geminiMd.content) <= MaxPieces
    /\ geminiMd' = inject_context(geminiMd, context_text)
    /\ UNCHANGED <<memVars, idxVars, wrVars, ctxVars, cost, claudeMd, pc, rpc, waiting>>

GeminiInject == \E context_text \in ContextTexts : GeminiInjectOf(context_text)

NextInject ==
    \/ BuildConfig
    \/ ClaudeInject
    \/ GeminiInject

SpecInject == Init /\ [][NextInject]_vars

\* the text of a file outside an injected section, without trailing line breaks
Outside(file) ==
    LET start == Find(file.content, MARKER_START)
    IN rstrip(IF start > 0 THEN SubSeq(file.content, 1, start - 1) ELSE file.content)

\* the file after inject_context(context_text) holds one section, delimited by
\* the two markers, with that text alone, after the text it held outside a
\* section before the call
Replaced(old, new, context_text) ==
    IF ~Exists(old)
    THEN new = old
    ELSE LET start == Find(new.content, MARKER_START)
             end == Find(new.content, MARKER_END)
         IN /\ CountIn(new.content, MARKER_START) = 1
            /\ CountIn(new.content, MARKER_END) = 1
            /\ start < end
            /\ SubSeq(new.content, start + 1, end - 1)
                  = SubSeq(Injection(context_text), 4, Len(Injection(context_text)) - 2)
            /\ Outside(new) = Outside(old)

\* C29: after every inject_context() call on an existing config file, the file
\* holds exactly one section delimited by the START and END markers, the
\* section holds the text of that call only, and the text the file held
\* outside a section is still there.
C29_ReinjectionReplaces ==
    [][\A t \in ContextTexts :
          /\ ClaudeInjectOf(t) => Replaced(claudeMd, claudeMd', t)
          /\ GeminiInjectOf(t) => Replaced(geminiMd, geminiMd', t)]_vars

----------------------------------------------------------------------------
(* The grouping of the index under full builds and partial re-indexes *)

\* C30: in every persisted index, every path listed under a module of modules
\* is a key of files, and every key of files is listed under the module named
\* in its record.
C30_GroupingConsistent ==
    idxFile.kind = "json" =>
        /\ \A m \in DOMAIN idxFile.value.modules :
              Range(idxFile.value.modules[m]) \subseteq DOMAIN idxFile.value.files
        /\ \A p \in DOMAIN idxFile.value.files :
              /\ "module" \in DOMAIN idxFile.value.files[p]
              /\ idxFile.value.files[p]["module"] \in DOMAIN idxFile.value.modules
              /\ CountIn(idxFile.value.modules[idxFile.value.files[p]["module"]], p) > 0

====
